---- MODULE Spec2Model ----
(***************************************************************************)
(* The review pipeline of multi-task-agent-workflow:                       *)
(*   RAGOrchestrator.process_review  (src/rag/orchestrator.py)             *)
(*   RetrieverAgent.process          (src/agents/retriever_agent.py)       *)
(*   DecisionAgent.process           (src/agents/decision_agent.py)        *)
(* One request moves through retrieve -> coverage gate -> decide ->        *)
(* policy gate -> finalize.  The embedding provider, the vector store and  *)
(* the language model are the environment: their answers are drawn from    *)
(* small sets at the step that calls them.                                 *)
(*                                                                         *)
(* The offline ingestion job that fills the chunks table is modelled next  *)
(* to it, with a specification of its own:                                 *)
(*   DocumentIngestion               (src/rag/ingest.py)                   *)
(*   RateLimitedIngestion            (src/rag/ingest_with_retry.py)        *)
(*                                                                         *)
(* Numbers that are floats in [0,1] in the code (similarity, coverage,     *)
(* confidence, the two thresholds) are integers in thousandths here, the   *)
(* precision RetrieverAgent.process rounds coverage to.                    *)
(***************************************************************************)
EXTENDS Integers, Sequences, FiniteSets, TLC

VARIABLES
    pc,              \* position of the request in process_review
    task_id,         \* argument of process_review
    details,         \* argument of process_review
    retr,            \* how RetrieverAgent.process came to its report
    results,         \* rows fetched by the store query (retriever local)
    report,          \* retrieval_report
    decision_input,  \* the dict handed to DecisionAgent.process
    llm_out,         \* what the model call produced in this request
    validated,       \* the decision dict as DecisionAgent.process returned it
    decision_result, \* the decision dict (validated, then gated)
    result,          \* the dict process_review returns (its "data" and "message")
    raised,          \* str(e) of the exception the except clause caught, "" for none
    embedCalls,      \* calls of genai.embed_content in this request
    queryCalls,      \* store queries in this request
    decideCalls,     \* calls of DecisionAgent.process in this request
    modelCalls,      \* calls of model.generate_content in this request
    cur,             \* the request whose coroutine the event loop is running
    frames,          \* the locals of the requests that are not running
    connsOut,        \* connections taken from engine.raw_connection() and not closed
    cursorsOpen,     \* cursors opened on them and not closed
    store,           \* the committed rows of the chunks table, oldest first
    txn,             \* rows inserted through the open session and not committed
    store0,          \* the committed rows when the ingestion run began
    chunks,          \* the chunks the ingestion run is given
    ingester,        \* the class whose ingest_documents is running
    ipc,             \* position of the ingestion run
    idx,             \* position of the chunk loop in chunks (from 1)
    inserted_count,  \* inserted_count of _upsert_chunks, total_inserted of the batch variant
    attempt,         \* loop variable of _get_embedding_with_retry
    embedding,       \* what the embedding call of the current chunk returned
    calls,           \* outcomes of the provider calls made for the current chunk
    provider_calls,  \* calls of genai.embed_content in this ingestion run
    failed,          \* chunk positions at which this run caught an exception (0: the commit)
    ingest_result,   \* the dict ingest_documents returned
    runs             \* ingestion runs that have returned

vars == <<pc, task_id, details, retr, results, report, decision_input, llm_out,
          validated, decision_result, result, raised, embedCalls, queryCalls,
          decideCalls, modelCalls, cur, frames, connsOut, cursorsOpen,
          store, txn, store0, chunks, ingester, ipc, idx, inserted_count, attempt,
          embedding, calls, provider_calls, failed, ingest_result, runs>>

\* the variables of a review request and of the store handles
requestVars ==
    <<pc, task_id, details, retr, results, report, decision_input, llm_out,
      validated, decision_result, result, raised, embedCalls, queryCalls,
      decideCalls, modelCalls, cur, frames, connsOut, cursorsOpen>>

\* the variables of the ingestion job
ingestVars ==
    <<store, txn, store0, chunks, ingester, ipc, idx, inserted_count, attempt,
      embedding, calls, provider_calls, failed, ingest_result, runs>>

----------------------------------------------------------------------------
(* Bounds of the model *)

\* most rows a store query returns in the model (never more than TOP_K)
MaxRows == 2
\* longest citations list the model output carries
MaxCites == 2
\* largest measured latency in milliseconds
MaxLatency == 1
\* requests in flight on the one orchestrator of src/routes/review.py
NumRequests == 2
\* longest chunk list an ingestion run is given
MaxChunks == 3
\* distinct chunk texts
NumTexts == 3
\* ingestion runs in one behaviour
MaxRuns == 2

(* Settings (src/settings/settings.py), thresholds in thousandths *)
TOP_K == 4
COVERAGE_THRESHOLD == 350
APPROVAL_COVERAGE_MIN == 450
\* the passage cut of RetrieverAgent.process
PASSAGE_MAX_CHARS == 1500

----------------------------------------------------------------------------
(* Helpers *)

Range(s) == {s[i] : i \in DOMAIN s}

Min(a, b) == IF a <= b THEN a ELSE b

SeqsUpTo(S, n) == UNION {[1..k -> S] : k \in 0..n}

RECURSIVE SumSeq(_)
SumSeq(s) == IF s = <<>> THEN 0 ELSE Head(s) + SumSeq(Tail(s))

\* sum/n rounded to the nearest integer, ties to the even one: round(x, 3) on
\* a value counted in thousandths
RoundDiv(sum, n) ==
    LET q == sum \div n
        r == sum % n
    IN  IF 2 * r < n THEN q
        ELSE IF 2 * r > n THEN q + 1
        ELSE IF q % 2 = 0 THEN q ELSE q + 1

----------------------------------------------------------------------------
(* Values of the store and of the model output *)

\* a text of len characters stored for chunk src; its first k characters are
\* StrText(src, k)
StrText(src, len) == [t |-> "str", src |-> src, len |-> len]
NoneText == [t |-> "none", src |-> 0, len |-> 0]

Num(n) == [t |-> "num", n |-> n]
NotNum(kind) == [t |-> kind, n |-> 0]

\* the string f"doc:{document_id}#chunk:{chunk_id}"
MakeTag(document_id, chunk_id) == [doc |-> document_id, chunk |-> chunk_id]

\* chunks the store holds: (id, document_id, text)
Chunks ==
    { [id |-> 1, document_id |-> 1, text |-> StrText(1, 12)],
      [id |-> 5, document_id |-> 2, text |-> StrText(5, 2000)],
      [id |-> 3, document_id |-> 1, text |-> StrText(3, 1500)],
      [id |-> 7, document_id |-> 3, text |-> NoneText] }

\* 1 - cosine distance as the store reports it for a row, or NULL
Similarities == {Num(-300), Num(350), Num(450), NotNum("none")}

Rows ==
    { [id |-> c.id, document_id |-> c.document_id, text |-> c.text, similarity |-> s] :
        c \in Chunks, s \in Similarities }

\* what cursor.fetchall() can return: at most TOP_K rows, each chunk once
ResultSets ==
    { rs \in SeqsUpTo(Rows, Min(MaxRows, TOP_K)) :
        \A i, j \in DOMAIN rs : i # j => rs[i].id # rs[j].id }

\* settings.EMBEDDING_MODEL and settings.EMBEDDING_DIM
EMBEDDING_MODEL == "gemini-embedding-001"
EMBEDDING_DIM == 768

\* a row of the chunks table, with the model name and the dimensionality its
\* embedding was stored under
StoredChunk(id, document_id, len, model, dim) ==
    [id |-> id, document_id |-> document_id, text |-> StrText(id, len),
     model |-> model, dim |-> dim]

\* The chunks table: five chunks stored under the configured model and
\* dimensionality (one more than TOP_K), one under another model, one under
\* another dimensionality, one under both.
StoredChunks ==
    { StoredChunk(1, 1, 12, EMBEDDING_MODEL, EMBEDDING_DIM),
      StoredChunk(2, 2, 900, EMBEDDING_MODEL, EMBEDDING_DIM),
      StoredChunk(3, 1, 1500, EMBEDDING_MODEL, EMBEDDING_DIM),
      StoredChunk(4, 3, 600, EMBEDDING_MODEL, EMBEDDING_DIM),
      StoredChunk(5, 2, 2000, EMBEDDING_MODEL, EMBEDDING_DIM),
      StoredChunk(6, 1, 900, "text-embedding-004", EMBEDDING_DIM),
      StoredChunk(8, 2, 900, EMBEDDING_MODEL, 256),
      StoredChunk(9, 3, 900, "text-embedding-004", 256) }

\* contents the table can have: all of the chunks, all but one, only the
\* chunks of other models and dimensionalities, none
Stores ==
    {StoredChunks, {}}
    \cup {StoredChunks \ {c} : c \in StoredChunks}
    \cup {{c \in StoredChunks : c.model # EMBEDDING_MODEL \/ c.dim # EMBEDDING_DIM}}

\* 1 - cosine distance of every stored embedding to a query embedding, in
\* thousandths: the query is closest to one chunk (0.9), the others lie
\* further away in the order of their ids, ascending or descending
QuerySimilarities ==
    { [id \in {c.id : c \in StoredChunks} |->
         IF id = closest THEN 900 ELSE IF up THEN 300 + 10 * id ELSE 500 - 10 * id] :
        closest \in {c.id : c \in StoredChunks}, up \in BOOLEAN }

\* ORDER BY embedding <=> query: the smallest distance, that is the largest
\* similarity, first
RECURSIVE OrderByDistance(_, _)
OrderByDistance(table, similarity) ==
    IF table = {} THEN <<>>
    ELSE LET first == CHOOSE c \in table :
                          \A d \in table : similarity[c.id] >= similarity[d.id]
         IN  <<first>> \o OrderByDistance(table \ {first}, similarity)

\* Mutant: the query selects on the model name only
StoreQuery_NoDimFilter(table, similarity, model, dim, limit) ==
    LET ordered == OrderByDistance({c \in table : c.model = model}, similarity)
    IN  [i \in 1..Min(Len(ordered), limit) |->
           [id |-> ordered[i].id, document_id |-> ordered[i].document_id,
            text |-> ordered[i].text, similarity |-> Num(similarity[ordered[i].id])]]

\* SELECT id, document_id, text, 1 - distance FROM chunks
\* WHERE model = %s AND dim = %s ORDER BY distance LIMIT %s
StoreQuery(table, similarity, model, dim, limit) ==
    LET ordered == OrderByDistance({c \in table : c.model = model /\ c.dim = dim},
                                   similarity)
    IN  [i \in 1..Min(Len(ordered), limit) |->
           [id |-> ordered[i].id, document_id |-> ordered[i].document_id,
            text |-> ordered[i].text, similarity |-> Num(similarity[ordered[i].id])]]

\* what cursor.fetchall() returns for the query of RetrieverAgent.process on
\* one of the tables and one of the query embeddings
StoreAnswers ==
    { StoreQuery(table, similarity, EMBEDDING_MODEL, EMBEDDING_DIM, TOP_K) :
        table \in Stores, similarity \in QuerySimilarities }

TaskIds == {"t1"}
DetailsValues == {"", "deploy service"}
ErrMsgs == {"connection reset", "deadline exceeded"}
Latencies == 0..MaxLatency

----------------------------------------------------------------------------
(* RetrieverAgent.process: from the fetched rows to the report *)

\* the report of the outer except clause
EmptyReport == [passages |-> <<>>, tags |-> <<>>, doc_ids |-> <<>>, coverage |-> 0]

\* Mutant: the cut is taken from 1500 characters on and keeps one character less
TrimText_CutsOneShort(text) ==
    IF text.len >= PASSAGE_MAX_CHARS THEN StrText(text.src, PASSAGE_MAX_CHARS - 1) ELSE text

\* text[:1500] if len(text) > 1500 else text
TrimText(text) ==
    IF text.len > PASSAGE_MAX_CHARS THEN StrText(text.src, PASSAGE_MAX_CHARS) ELSE text

\* Mutant: the tag is built with chunk id and document id the wrong way round
ProcessRow_SwappedTag(acc, row) ==
    IF row.text.t # "str" THEN acc
    ELSE LET appended ==
                 [acc EXCEPT
                    !.passages = Append(@, TrimText(row.text)),
                    !.tags = Append(@, MakeTag(row.id, row.document_id)),
                    !.doc_ids = IF row.document_id \in Range(@) THEN @
                                ELSE Append(@, row.document_id)]
         IN  IF row.similarity.t # "num" THEN appended
             ELSE [appended EXCEPT !.similarities = Append(@, row.similarity.n)]

\* Mutant: the document id of every row is appended, seen before or not
ProcessRow_AppendsEveryDocId(acc, row) ==
    IF row.text.t # "str" THEN acc
    ELSE LET appended ==
                 [acc EXCEPT
                    !.passages = Append(@, TrimText(row.text)),
                    !.tags = Append(@, MakeTag(row.document_id, row.id)),
                    !.doc_ids = Append(@, row.document_id)]
         IN  IF row.similarity.t # "num" THEN appended
             ELSE [appended EXCEPT !.similarities = Append(@, row.similarity.n)]

\* One pass of the row loop.  len(None) raises before anything is appended;
\* float(None) raises after passage, tag and doc id were appended.  Either
\* way the inner except clause continues with the next row.
ProcessRow(acc, row) ==
    IF row.text.t # "str" THEN acc
    ELSE LET appended ==
                 [acc EXCEPT
                    !.passages = Append(@, TrimText(row.text)),
                    !.tags = Append(@, MakeTag(row.document_id, row.id)),
                    !.doc_ids = IF row.document_id \in Range(@) THEN @
                                ELSE Append(@, row.document_id)]
         IN  IF row.similarity.t # "num" THEN appended
             ELSE [appended EXCEPT !.similarities = Append(@, row.similarity.n)]

RECURSIVE ProcessRows(_, _)
ProcessRows(rows, acc) ==
    IF rows = <<>> THEN acc
    ELSE ProcessRows(Tail(rows), ProcessRow(acc, Head(rows)))

\* round(sum(similarities) / len(similarities), 3), 0.0 for no similarity
Coverage(similarities) ==
    IF similarities = <<>> THEN 0
    ELSE RoundDiv(SumSeq(similarities), Len(similarities))

\* RetrievalReport(...) validates 0 <= coverage <= 1; a ValidationError and the
\* length-mismatch ValueError both end in the outer except clause
BuildReport(rows) ==
    LET acc == ProcessRows(rows, [passages |-> <<>>, tags |-> <<>>, doc_ids |-> <<>>,
                                  similarities |-> <<>>])
        coverage == Coverage(acc.similarities)
    IN  IF Len(acc.passages) # Len(acc.tags) THEN EmptyReport
        ELSE IF coverage < 0 \/ coverage > 1000 THEN EmptyReport
        ELSE [passages |-> acc.passages, tags |-> acc.tags, doc_ids |-> acc.doc_ids,
              coverage |-> coverage]

----------------------------------------------------------------------------
(* DecisionAgent: the model output and its validation *)

\* a rationale string: a fixed text, with the values an f-string puts in it
Rationale(msg, err, cov, thr) == [msg |-> msg, err |-> err, cov |-> cov, thr |-> thr]

CANONICAL_RATIONALE ==
    Rationale("Unable to process decision due to insufficient information or invalid data format",
              "", 0, 0)

POLICY_RATIONALE ==
    Rationale("Insufficient context or citations for approval. Requires higher coverage and at least 2 distinct citations.",
              "", 0, 0)

MODEL_RATIONALE == Rationale("model: the task complies with the cited policy", "", 0, 0)

Action(action, description) == [action |-> action, description |-> description]

PROVIDE_MORE_CONTEXT_DECISION ==
    Action("provide_more_context", "Provide additional documentation or context for review")

PROVIDE_MORE_CONTEXT_COVERAGE ==
    Action("provide_more_context", "Provide additional context or documentation for review")

RETRY_REQUEST ==
    Action("retry_request", "Retry the request after checking system status")

MODEL_ACTION == Action("update_runbook", "model: document the rollback procedure")

\* _create_reject_response
CreateRejectResponse ==
    [decision |-> "reject",
     rationale |-> CANONICAL_RATIONALE,
     citations |-> <<>>,
     confidence |-> 0,
     required_actions |-> <<PROVIDE_MORE_CONTEXT_DECISION>>]

\* An element met while iterating the citations value: a JSON string that
\* spells a tag, a JSON number, or one character of a JSON string.
StrItem(tag) == [t |-> "str", tag |-> tag]
NumItem == [t |-> "num", tag |-> MakeTag(0, 0)]
CharItem == [t |-> "char", tag |-> MakeTag(0, 0)]

TagA == MakeTag(1, 1)
TagB == MakeTag(2, 5)
\* a tag no chunk of the store has
ForeignTag == MakeTag(3, 99)

CitationItems == {StrItem(TagA), StrItem(TagB), StrItem(ForeignTag), NumItem}

\* The "citations" value of the model's JSON: a list; or a number (iterating
\* it raises TypeError), a string (iterating it gives its characters) or an
\* object (iterating it gives its keys).
ListOf(items) == [t |-> "list", items |-> items]

CitationValues ==
    {ListOf(s) : s \in SeqsUpTo(CitationItems, MaxCites)}
    \cup { [t |-> "num", items |-> <<>>],
           [t |-> "str", items |-> <<CharItem, CharItem>>],
           [t |-> "dict", items |-> <<StrItem(TagA), StrItem(ForeignTag)>>],
           [t |-> "dict", items |-> <<StrItem(TagA), StrItem(TagB)>>] }

\* float("nan"), which json.loads reads from the literal NaN: a float for which
\* every comparison is false.  In the model a number no confidence, coverage
\* or similarity has.
NaN == -1000000

\* the JSON literals NaN and true as the confidence value
NaNValue == [t |-> "nan", n |-> NaN]
TrueValue == [t |-> "bool", n |-> 1000]

\* 0.8, 0, 1, 1.5, -0.1, a JSON string, NaN and true
ConfidenceValues ==
    {Num(800), Num(0), Num(1000), Num(1500), Num(-100), NotNum("str"), NaNValue, TrueValue}

RequiredActionsValues ==
    {ListOf(<<>>), ListOf(<<MODEL_ACTION>>), [t |-> "str", items |-> <<>>]}

REQUIRED_FIELDS == {"decision", "rationale", "citations", "confidence"}
ALL_FIELDS == REQUIRED_FIELDS \cup {"required_actions"}
VALID_DECISIONS == {"approve", "reject"}

\* What the model call gives: kind "raise" (generate_content or response.text
\* raises), "notjson" (text json.loads refuses), "scalar" (a JSON number, null
\* or boolean), "array" (a JSON array or string: keys are the field names that
\* `in` finds in it), "object" (a JSON object with the keys in keys).
ModelOutput(kind, keys, decision, citations, confidence, required_actions) ==
    [kind |-> kind, keys |-> keys, decision |-> decision, rationale |-> MODEL_RATIONALE,
     citations |-> citations, confidence |-> confidence,
     required_actions |-> required_actions]

NonObject(kind, keys) ==
    ModelOutput(kind, keys, "", ListOf(<<>>), Num(0), ListOf(<<>>))

NoOutput == NonObject("none", {})

ModelOutputs ==
    { ModelOutput("object", ALL_FIELDS, d, c, Num(800), ListOf(<<MODEL_ACTION>>)) :
        d \in VALID_DECISIONS \cup {"maybe"}, c \in CitationValues }
    \cup
    { ModelOutput("object", ALL_FIELDS, d, ListOf(<<StrItem(TagA), StrItem(TagB)>>), cf, ra) :
        d \in VALID_DECISIONS, cf \in ConfidenceValues, ra \in RequiredActionsValues }
    \cup
    { ModelOutput("object", ALL_FIELDS \ {f}, "approve",
                  ListOf(<<StrItem(TagA), StrItem(TagB)>>), Num(800), ListOf(<<>>)) :
        f \in ALL_FIELDS }
    \cup
    { NonObject("raise", {}), NonObject("notjson", {}), NonObject("scalar", {}),
      NonObject("array", {}), NonObject("array", REQUIRED_FIELDS) }

\* `for tag in citations` is possible on lists, strings and objects
Iterable(citations) == citations.t \in {"list", "str", "dict"}

\* Mutant: every string citation is kept, whether or not it is an available tag
FilterCitations_NoFilter(citations, available_tags) ==
    LET kept == SelectSeq(citations.items, LAMBDA it : it.t = "str")
    IN  [i \in DOMAIN kept |-> kept[i].tag]

\* [tag for tag in citations if tag in available_tags]: only a string equals a tag
FilterCitations(citations, available_tags) ==
    LET kept == SelectSeq(citations.items,
                          LAMBDA it : it.t = "str" /\ it.tag \in Range(available_tags))
    IN  [i \in DOMAIN kept |-> kept[i].tag]

\* `not isinstance(confidence, (int, float)) or confidence < 0 or confidence > 1`
\* gives 0.0, anything else float(confidence).  A bool is an int; both
\* comparisons are false on NaN, so NaN is kept.
ValidConfidence(confidence) ==
    IF confidence.t = "nan" THEN NaN
    ELSE IF confidence.t \notin {"num", "bool"} \/ confidence.n < 0 \/ confidence.n > 1000
    THEN 0
    ELSE confidence.n

\* decision_data.get("required_actions", []), [] when it is not a list
ValidRequiredActions(out) ==
    IF "required_actions" \in out.keys /\ out.required_actions.t = "list"
    THEN out.required_actions.items
    ELSE <<>>

\* Mutant: the decision value is not checked against the valid decisions
ValidateAndFilterDecision_NoEnumCheck(out, available_tags) ==
    IF out.kind = "scalar" THEN CreateRejectResponse
    ELSE IF \E f \in REQUIRED_FIELDS : f \notin out.keys THEN CreateRejectResponse
    ELSE IF out.kind # "object" THEN CreateRejectResponse
    ELSE IF ~Iterable(out.citations) THEN CreateRejectResponse
    ELSE [decision |-> out.decision,
          rationale |-> out.rationale,
          citations |-> FilterCitations(out.citations, available_tags),
          confidence |-> ValidConfidence(out.confidence),
          required_actions |-> ValidRequiredActions(out)]

\* _validate_and_filter_decision on the parsed JSON value.  On a number, null
\* or boolean `field not in decision_data` raises TypeError; on an array or a
\* string that holds every field name decision_data["decision"] raises
\* TypeError; iterating a citations value that is not iterable raises
\* TypeError: the except clause answers each with the reject response.
ValidateAndFilterDecision(out, available_tags) ==
    IF out.kind = "scalar" THEN CreateRejectResponse
    ELSE IF \E f \in REQUIRED_FIELDS : f \notin out.keys THEN CreateRejectResponse
    ELSE IF out.kind # "object" THEN CreateRejectResponse
    ELSE IF out.decision \notin VALID_DECISIONS THEN CreateRejectResponse
    ELSE IF ~Iterable(out.citations) THEN CreateRejectResponse
    ELSE [decision |-> out.decision,
          rationale |-> out.rationale,
          citations |-> FilterCitations(out.citations, available_tags),
          confidence |-> ValidConfidence(out.confidence),
          required_actions |-> ValidRequiredActions(out)]

\* DecisionAgent.process after the model call: a raised exception reaches
\* the outer except clause, text that is not JSON the inner one
ParseAndValidate(out, available_tags) ==
    IF out.kind = "raise" THEN CreateRejectResponse
    ELSE IF out.kind = "notjson" THEN CreateRejectResponse
    ELSE ValidateAndFilterDecision(out, available_tags)

----------------------------------------------------------------------------
(* RAGOrchestrator *)

\* Mutant: citations are counted with their repeats, len(citations) >= 2
ApplyPolicyGate_CountsRepeats(decision, retrieval_report) ==
    IF decision.decision = "approve"
    THEN LET coverage_ok == retrieval_report.coverage >= APPROVAL_COVERAGE_MIN
             citations_ok == Len(decision.citations) >= 2
         IN  IF ~(coverage_ok /\ citations_ok)
             THEN [decision EXCEPT !.decision = "reject",
                                   !.rationale = POLICY_RATIONALE,
                                   !.citations = <<>>,
                                   !.confidence = 0]
             ELSE decision
    ELSE decision

\* Mutant: a downgrade replaces decision and rationale only
ApplyPolicyGate_KeepsCitations(decision, retrieval_report) ==
    IF decision.decision = "approve"
    THEN LET coverage_ok == retrieval_report.coverage >= APPROVAL_COVERAGE_MIN
             citations_ok == Cardinality(Range(decision.citations)) >= 2
         IN  IF ~(coverage_ok /\ citations_ok)
             THEN [decision EXCEPT !.decision = "reject",
                                   !.rationale = POLICY_RATIONALE]
             ELSE decision
    ELSE decision

\* Mutant: the requirements are checked whatever the decision is
ApplyPolicyGate_GatesRejects(decision, retrieval_report) ==
    LET coverage_ok == retrieval_report.coverage >= APPROVAL_COVERAGE_MIN
        citations_ok == Cardinality(Range(decision.citations)) >= 2
    IN  IF ~(coverage_ok /\ citations_ok)
        THEN [decision EXCEPT !.decision = "reject",
                              !.rationale = POLICY_RATIONALE,
                              !.citations = <<>>,
                              !.confidence = 0]
        ELSE decision

\* Mutant: a downgrade also replaces the required actions of the decision
ApplyPolicyGate_ReplacesActions(decision, retrieval_report) ==
    IF decision.decision = "approve"
    THEN LET coverage_ok == retrieval_report.coverage >= APPROVAL_COVERAGE_MIN
             citations_ok == Cardinality(Range(decision.citations)) >= 2
         IN  IF ~(coverage_ok /\ citations_ok)
             THEN [decision EXCEPT !.decision = "reject",
                                   !.rationale = POLICY_RATIONALE,
                                   !.citations = <<>>,
                                   !.confidence = 0,
                                   !.required_actions = <<PROVIDE_MORE_CONTEXT_DECISION>>]
             ELSE decision
    ELSE decision

\* _apply_policy_gate
ApplyPolicyGate(decision, retrieval_report) ==
    IF decision.decision = "approve"
    THEN LET coverage_ok == retrieval_report.coverage >= APPROVAL_COVERAGE_MIN
             citations_ok == Cardinality(Range(decision.citations)) >= 2
         IN  IF ~(coverage_ok /\ citations_ok)
             THEN [decision EXCEPT !.decision = "reject",
                                   !.rationale = POLICY_RATIONALE,
                                   !.citations = <<>>,
                                   !.confidence = 0]
             ELSE decision
    ELSE decision

\* Mutant: the gate rejects only a report without any evidence
LowCoverage_OnlyZero(retrieval_report) == retrieval_report.coverage <= 0

\* Mutant: coverage equal to the threshold is rejected too
LowCoverage_Inclusive(retrieval_report) == retrieval_report.coverage <= COVERAGE_THRESHOLD

\* the test of the coverage gate
LowCoverage(retrieval_report) == retrieval_report.coverage < COVERAGE_THRESHOLD

\* the dict a return statement of process_review builds
Response(message, tid, decision, rationale, citations, doc_ids, coverage, latency, required_actions, confidence) ==
    [message |-> message, task_id |-> tid, decision |-> decision,
     rationale |-> rationale, citations |-> citations, retrieved_doc_ids |-> doc_ids,
     coverage |-> coverage, latency_ms |-> latency,
     required_actions |-> required_actions, confidence |-> confidence]

NoResult ==
    Response("none", "", "", Rationale("", "", 0, 0), <<>>, <<>>, 0, 0, <<>>, 0)

\* Mutant: the rationale of the coverage reject names the elapsed time in
\* place of the threshold
CreateLowCoverageResponse_NamesLatency(tid, retrieval_report, latency) ==
    Response("review completed", tid, "reject",
             Rationale("Insufficient contextual information available for review. Coverage is below required threshold.",
                       "", retrieval_report.coverage, latency),
             <<>>, retrieval_report.doc_ids, retrieval_report.coverage, latency,
             <<PROVIDE_MORE_CONTEXT_COVERAGE>>, 0)

\* _create_low_coverage_response
CreateLowCoverageResponse(tid, retrieval_report, latency) ==
    Response("review completed", tid, "reject",
             Rationale("Insufficient contextual information available for review. Coverage is below required threshold.",
                       "", retrieval_report.coverage, COVERAGE_THRESHOLD),
             <<>>, retrieval_report.doc_ids, retrieval_report.coverage, latency,
             <<PROVIDE_MORE_CONTEXT_COVERAGE>>, 0)

\* _create_final_response
CreateFinalResponse(tid, decision, retrieval_report, latency) ==
    Response("review completed", tid, decision.decision, decision.rationale,
             decision.citations, retrieval_report.doc_ids, retrieval_report.coverage,
             latency, decision.required_actions, decision.confidence)

\* Mutant: the error result is built like the reject response of the decision
\* agent: no error message in the rationale, provide_more_context as action
CreateErrorResponse_AsCanonicalReject(tid, error_msg, latency) ==
    Response("review failed", tid, "reject", CANONICAL_RATIONALE,
             <<>>, <<>>, 0, latency, <<PROVIDE_MORE_CONTEXT_DECISION>>, 0)

\* _create_error_response
CreateErrorResponse(tid, error_msg, latency) ==
    Response("review failed", tid, "reject",
             Rationale("Processing error: . Unable to complete review.", error_msg, 0, 0),
             <<>>, <<>>, 0, latency, <<RETRY_REQUEST>>, 0)

NoDecision ==
    [decision |-> "", rationale |-> Rationale("", "", 0, 0), citations |-> <<>>,
     confidence |-> 0, required_actions |-> <<>>]

NoInput ==
    [task_id |-> "", details |-> "", passages |-> <<>>, tags |-> <<>>, coverage |-> 0]

----------------------------------------------------------------------------
(* The ingestion job: values *)

\* hashlib.sha256(text.encode('utf-8')).hexdigest(): one digest per text
Sha256(text) == <<"sha256", text>>

\* the row the INSERT of the ingestion writes for a chunk text
ChunkRow(text, model, dim, vector) ==
    [sha256 |-> Sha256(text), text |-> text, model |-> model, dim |-> dim,
     embedding |-> vector]

\* the content hashes of a sequence of rows
Hashes(rows) == {rows[i].sha256 : i \in DOMAIN rows}

\* chunk texts, and the chunk lists the splitter can hand to the upsert: a
\* text can repeat; of the lists that differ only in which text is which, one
Texts == 1..NumTexts

ChunkLists ==
    { cs \in SeqsUpTo(Texts, MaxChunks) :
        \A i \in DOMAIN cs : \A t \in 1..(cs[i] - 1) : \E j \in 1..(i - 1) : cs[j] = t }

\* the chunks table before the first run: empty, or holding text 1 from an
\* earlier ingestion under the configured or under another embedding model
InitialStores ==
    { <<>>,
      <<ChunkRow(1, EMBEDDING_MODEL, EMBEDDING_DIM, "vector")>>,
      <<ChunkRow(1, "text-embedding-004", EMBEDDING_DIM, "vector")>> }

\* self.max_retries of RateLimitedIngestion
MAX_RETRIES == 3

IngestResult(status, chunks_inserted) ==
    [status |-> status, chunks_inserted |-> chunks_inserted]

NoIngestResult == IngestResult("none", 0)

----------------------------------------------------------------------------
(* The state machine *)

Requests == 1..NumRequests

\* the locals of a request that has not been started
NewFrame ==
    [pc |-> "idle", task_id |-> "", details |-> "", retr |-> "none", results |-> <<>>,
     report |-> EmptyReport, decision_input |-> NoInput, llm_out |-> NoOutput,
     validated |-> NoDecision, decision_result |-> NoDecision, result |-> NoResult,
     raised |-> "", embedCalls |-> 0, queryCalls |-> 0, decideCalls |-> 0,
     modelCalls |-> 0]

InitRequest ==
    /\ cur = 1
    /\ frames = [r \in Requests |-> NewFrame]
    /\ pc = "idle"
    /\ task_id = ""
    /\ details = ""
    /\ retr = "none"
    /\ results = <<>>
    /\ report = EmptyReport
    /\ decision_input = NoInput
    /\ llm_out = NoOutput
    /\ validated = NoDecision
    /\ decision_result = NoDecision
    /\ result = NoResult
    /\ raised = ""
    /\ embedCalls = 0
    /\ queryCalls = 0
    /\ decideCalls = 0
    /\ modelCalls = 0
    /\ connsOut = 0
    /\ cursorsOpen = 0

\* no ingestion run has been started on the given table and chunks
InitIngest(table, documents) ==
    /\ store = table
    /\ txn = <<>>
    /\ store0 = table
    /\ chunks = documents
    /\ ingester = ""
    /\ ipc = "idle"
    /\ idx = 1
    /\ inserted_count = 0
    /\ attempt = 0
    /\ embedding = "none"
    /\ calls = <<>>
    /\ provider_calls = 0
    /\ failed = {}
    /\ ingest_result = NoIngestResult
    /\ runs = 0

Init == InitRequest /\ InitIngest(<<>>, <<>>)

\* process_review is called
ProcessReview ==
    /\ pc = "idle"
    /\ \E tid \in TaskIds, d \in DetailsValues :
         /\ task_id' = tid
         /\ details' = d
    /\ pc' = "retrieve"
    /\ UNCHANGED <<retr, results, report, decision_input, llm_out, validated,
                   decision_result, result, raised, embedCalls, queryCalls,
                   decideCalls, modelCalls>>
    /\ UNCHANGED <<cur, frames>>
    /\ UNCHANGED <<connsOut, cursorsOpen>>
    /\ UNCHANGED ingestVars

\* Mutant: a failed embedding call is not caught in RetrieverAgent.process and
\* reaches the except clause of process_review
RetrieverEmbed_Propagates ==
    /\ pc = "retrieve"
    /\ IF details = ""
       THEN /\ retr' = "empty_details"
            /\ report' = EmptyReport
            /\ pc' = "gate"
            /\ UNCHANGED <<embedCalls, raised, result>>
       ELSE \E ok \in BOOLEAN, error_msg \in ErrMsgs, latency \in Latencies :
            /\ embedCalls' = embedCalls + 1
            /\ IF ok
               THEN /\ pc' = "query"
                    /\ UNCHANGED <<retr, report, raised, result>>
               ELSE /\ retr' = "embed_failed"
                    /\ raised' = error_msg
                    /\ result' = CreateErrorResponse(task_id, error_msg, latency)
                    /\ pc' = "error"
                    /\ UNCHANGED report
    /\ UNCHANGED <<task_id, details, results, decision_input, llm_out, validated,
                   decision_result, queryCalls, decideCalls, modelCalls>>
    /\ UNCHANGED <<cur, frames>>
    /\ UNCHANGED <<connsOut, cursorsOpen>>
    /\ UNCHANGED ingestVars

\* RetrieverAgent.process up to the embedding call: empty details raise
\* ValueError, a failed embedding call re-raises; the outer except clause
\* answers both with the empty report
RetrieverEmbed ==
    /\ pc = "retrieve"
    /\ IF details = ""
       THEN /\ retr' = "empty_details"
            /\ report' = EmptyReport
            /\ pc' = "gate"
            /\ UNCHANGED embedCalls
       ELSE \E ok \in BOOLEAN :
            /\ embedCalls' = embedCalls + 1
            /\ IF ok
               THEN /\ pc' = "query"
                    /\ UNCHANGED <<retr, report>>
               ELSE /\ retr' = "embed_failed"
                    /\ report' = EmptyReport
                    /\ pc' = "gate"
    /\ UNCHANGED <<task_id, details, results, decision_input, llm_out, validated,
                   decision_result, result, raised, queryCalls, decideCalls, modelCalls>>
    /\ UNCHANGED <<cur, frames>>
    /\ UNCHANGED <<connsOut, cursorsOpen>>
    /\ UNCHANGED ingestVars

\* How the try block of the store query ends: it runs through, or
\* engine.raw_connection() raises, or raw_conn.cursor() raises, or
\* cursor.execute() or cursor.fetchall() raises
QueryOutcomes == {"ok", "connect_failed", "cursor_failed", "execute_failed"}

\* connections the block has taken and not closed when it ends.  cursor.close()
\* and raw_conn.close() stand after fetchall() inside the try block and there
\* is no finally: after an exception nothing is closed by the code, and the
\* handles are released only if the runtime has finalized them by then.
ConnsLeftOpen(outcome, finalized) ==
    IF outcome \in {"cursor_failed", "execute_failed"} /\ ~finalized THEN 1 ELSE 0

CursorsLeftOpen(outcome, finalized) ==
    IF outcome = "execute_failed" /\ ~finalized THEN 1 ELSE 0

\* RetrieverAgent.process from the store query to the return, the store
\* answering with one of resultSets: a failed query leaves results = [], then
\* the rows are processed and the report is built
RetrieverQueryFrom(resultSets) ==
    /\ pc = "query"
    /\ \E outcome \in QueryOutcomes, rows \in resultSets, finalized \in BOOLEAN :
         /\ outcome # "ok" => rows = <<>>
         /\ results' = rows
         /\ retr' = IF outcome = "ok" THEN "ok" ELSE "query_failed"
         /\ report' = BuildReport(rows)
         /\ connsOut' = connsOut + ConnsLeftOpen(outcome, finalized)
         /\ cursorsOpen' = cursorsOpen + CursorsLeftOpen(outcome, finalized)
    /\ queryCalls' = queryCalls + 1
    /\ pc' = "gate"
    /\ UNCHANGED <<task_id, details, decision_input, llm_out, validated,
                   decision_result, result, raised, embedCalls, decideCalls, modelCalls>>
    /\ UNCHANGED <<cur, frames>>
    /\ UNCHANGED ingestVars

RetrieverQuery == RetrieverQueryFrom(ResultSets)

\* Mutant: a report below the threshold sends the request back to the
\* retrieval once before it is rejected
CoverageGate_RetrievesAgain ==
    /\ pc = "gate"
    /\ \E latency \in Latencies :
         IF LowCoverage(report) /\ retr = "ok" /\ queryCalls < 2
         THEN /\ pc' = "query"
              /\ UNCHANGED <<result, decision_input>>
         ELSE IF LowCoverage(report)
         THEN /\ result' = CreateLowCoverageResponse(task_id, report, latency)
              /\ pc' = "coverage_rejected"
              /\ UNCHANGED decision_input
         ELSE /\ decision_input' =
                    [task_id |-> task_id, details |-> details,
                     passages |-> report.passages, tags |-> report.tags,
                     coverage |-> report.coverage]
              /\ pc' = "decide"
              /\ UNCHANGED result
    /\ UNCHANGED <<task_id, details, retr, results, report, llm_out, validated,
                   decision_result, raised, embedCalls, queryCalls, decideCalls,
                   modelCalls>>
    /\ UNCHANGED <<cur, frames>>
    /\ UNCHANGED <<connsOut, cursorsOpen>>
    /\ UNCHANGED ingestVars

\* process_review, step 2: the coverage gate, and the input of step 3
CoverageGate ==
    /\ pc = "gate"
    /\ \E latency \in Latencies :
         IF LowCoverage(report)
         THEN /\ result' = CreateLowCoverageResponse(task_id, report, latency)
              /\ pc' = "coverage_rejected"
              /\ UNCHANGED decision_input
         ELSE /\ decision_input' =
                    [task_id |-> task_id, details |-> details,
                     passages |-> report.passages, tags |-> report.tags,
                     coverage |-> report.coverage]
              /\ pc' = "decide"
              /\ UNCHANGED result
    /\ UNCHANGED <<task_id, details, retr, results, report, llm_out, validated,
                   decision_result, raised, embedCalls, queryCalls, decideCalls,
                   modelCalls>>
    /\ UNCHANGED <<cur, frames>>
    /\ UNCHANGED <<connsOut, cursorsOpen>>
    /\ UNCHANGED ingestVars

\* what a caller of DecisionAgent.process hands it when it is called on its
\* own, as the tests of the agent call it: passages and tags of any length
DecisionInputs ==
    { [task_id |-> tid, details |-> d, passages |-> p, tags |-> t, coverage |-> c] :
        tid \in TaskIds, d \in DetailsValues,
        p \in {<<>>, <<StrText(1, 12)>>, <<StrText(1, 12), StrText(5, PASSAGE_MAX_CHARS)>>},
        t \in {<<>>, <<TagA>>, <<TagA, TagB>>},
        c \in {0, COVERAGE_THRESHOLD, APPROVAL_COVERAGE_MIN} }

\* DecisionAgent.process is called with input_data
DecisionAgentCall ==
    /\ pc = "idle"
    /\ \E input_data \in DecisionInputs :
         /\ decision_input' = input_data
         /\ task_id' = input_data.task_id
         /\ details' = input_data.details
    /\ pc' = "decide"
    /\ UNCHANGED <<retr, results, report, llm_out, validated, decision_result, result,
                   raised, embedCalls, queryCalls, decideCalls, modelCalls>>
    /\ UNCHANGED <<cur, frames>>
    /\ UNCHANGED <<connsOut, cursorsOpen>>
    /\ UNCHANGED ingestVars

\* Mutant: the agent returns at once only when passages and tags are both empty
DecisionProcess_NeedsBothEmpty ==
    /\ pc = "decide"
    /\ decideCalls' = decideCalls + 1
    /\ IF decision_input.details = ""
          \/ (decision_input.passages = <<>> /\ decision_input.tags = <<>>)
       THEN /\ validated' = CreateRejectResponse
            /\ decision_result' = CreateRejectResponse
            /\ pc' = "policy"
       ELSE /\ pc' = "llm"
            /\ UNCHANGED <<validated, decision_result>>
    /\ UNCHANGED <<task_id, details, retr, results, report, decision_input, llm_out,
                   result, raised, embedCalls, queryCalls, modelCalls>>
    /\ UNCHANGED <<cur, frames>>
    /\ UNCHANGED <<connsOut, cursorsOpen>>
    /\ UNCHANGED ingestVars

\* Mutant: the agent asks the model whatever passages and tags it was handed
DecisionProcess_NoShortCircuit ==
    /\ pc = "decide"
    /\ decideCalls' = decideCalls + 1
    /\ IF decision_input.details = ""
       THEN /\ validated' = CreateRejectResponse
            /\ decision_result' = CreateRejectResponse
            /\ pc' = "policy"
       ELSE /\ pc' = "llm"
            /\ UNCHANGED <<validated, decision_result>>
    /\ UNCHANGED <<task_id, details, retr, results, report, decision_input, llm_out,
                   result, raised, embedCalls, queryCalls, modelCalls>>
    /\ UNCHANGED <<cur, frames>>
    /\ UNCHANGED <<connsOut, cursorsOpen>>
    /\ UNCHANGED ingestVars

\* DecisionAgent.process up to the model call: missing details raise
\* ValueError (answered by the outer except clause), empty passages or tags
\* return the reject response at once
DecisionProcess ==
    /\ pc = "decide"
    /\ decideCalls' = decideCalls + 1
    /\ IF decision_input.details = ""
          \/ decision_input.passages = <<>> \/ decision_input.tags = <<>>
       THEN /\ validated' = CreateRejectResponse
            /\ decision_result' = CreateRejectResponse
            /\ pc' = "policy"
       ELSE /\ pc' = "llm"
            /\ UNCHANGED <<validated, decision_result>>
    /\ UNCHANGED <<task_id, details, retr, results, report, decision_input, llm_out,
                   result, raised, embedCalls, queryCalls, modelCalls>>
    /\ UNCHANGED <<cur, frames>>
    /\ UNCHANGED <<connsOut, cursorsOpen>>
    /\ UNCHANGED ingestVars

\* Mutant: DecisionAgent.process has no outer except clause, so a failed model
\* call reaches the except clause of process_review
GenerateDecision_Propagates ==
    /\ pc = "llm"
    /\ \E out \in ModelOutputs, error_msg \in ErrMsgs, latency \in Latencies :
         /\ llm_out' = out
         /\ IF out.kind = "raise"
            THEN /\ raised' = error_msg
                 /\ result' = CreateErrorResponse(task_id, error_msg, latency)
                 /\ pc' = "error"
                 /\ UNCHANGED <<validated, decision_result>>
            ELSE /\ validated' = ParseAndValidate(out, decision_input.tags)
                 /\ decision_result' = ParseAndValidate(out, decision_input.tags)
                 /\ pc' = "policy"
                 /\ UNCHANGED <<raised, result>>
    /\ modelCalls' = modelCalls + 1
    /\ UNCHANGED <<task_id, details, retr, results, report, decision_input,
                   embedCalls, queryCalls, decideCalls>>
    /\ UNCHANGED <<cur, frames>>
    /\ UNCHANGED <<connsOut, cursorsOpen>>
    /\ UNCHANGED ingestVars

\* Mutant: after a failed model call or an answer that is not JSON the model
\* is asked once more
GenerateDecision_RetriesOnce ==
    /\ pc = "llm"
    /\ \E out \in ModelOutputs :
         /\ llm_out' = out
         /\ IF out.kind \in {"raise", "notjson"} /\ modelCalls = 0
            THEN /\ pc' = "llm"
                 /\ UNCHANGED <<validated, decision_result>>
            ELSE /\ validated' = ParseAndValidate(out, decision_input.tags)
                 /\ decision_result' = ParseAndValidate(out, decision_input.tags)
                 /\ pc' = "policy"
    /\ modelCalls' = modelCalls + 1
    /\ UNCHANGED <<task_id, details, retr, results, report, decision_input, result,
                   raised, embedCalls, queryCalls, decideCalls>>
    /\ UNCHANGED <<cur, frames>>
    /\ UNCHANGED <<connsOut, cursorsOpen>>
    /\ UNCHANGED ingestVars

\* _generate_decision, the model answering with one of outputs, then
\* json.loads and _validate_and_filter_decision
GenerateDecisionFrom(outputs) ==
    /\ pc = "llm"
    /\ \E out \in outputs :
         /\ llm_out' = out
         /\ validated' = ParseAndValidate(out, decision_input.tags)
         /\ decision_result' = ParseAndValidate(out, decision_input.tags)
    /\ modelCalls' = modelCalls + 1
    /\ pc' = "policy"
    /\ UNCHANGED <<task_id, details, retr, results, report, decision_input, result,
                   raised, embedCalls, queryCalls, decideCalls>>
    /\ UNCHANGED <<cur, frames>>
    /\ UNCHANGED <<connsOut, cursorsOpen>>
    /\ UNCHANGED ingestVars

GenerateDecision == GenerateDecisionFrom(ModelOutputs)

\* process_review, step 4
PolicyGate ==
    /\ pc = "policy"
    /\ decision_result' = ApplyPolicyGate(decision_result, report)
    /\ pc' = "finalize"
    /\ UNCHANGED <<task_id, details, retr, results, report, decision_input, llm_out,
                   validated, result, raised, embedCalls, queryCalls, decideCalls,
                   modelCalls>>
    /\ UNCHANGED <<cur, frames>>
    /\ UNCHANGED <<connsOut, cursorsOpen>>
    /\ UNCHANGED ingestVars

\* process_review, step 5
Finalize ==
    /\ pc = "finalize"
    /\ \E latency \in Latencies :
         result' = CreateFinalResponse(task_id, decision_result, report, latency)
    /\ pc' = "final"
    /\ UNCHANGED <<task_id, details, retr, results, report, decision_input, llm_out,
                   validated, decision_result, raised, embedCalls, queryCalls,
                   decideCalls, modelCalls>>
    /\ UNCHANGED <<cur, frames>>
    /\ UNCHANGED <<connsOut, cursorsOpen>>
    /\ UNCHANGED ingestVars

\* The except clause of process_review.  Both agents answer every Exception
\* of their own bodies themselves, so the clause is reached only when one of
\* the two awaited calls raises outside the agent's own try block (an agent
\* replaced by a double, as the tests replace them, or an error of the
\* runtime at the call).
ProcessReviewExcept ==
    /\ pc \in {"retrieve", "decide"}
    /\ \E error_msg \in ErrMsgs, latency \in Latencies :
         /\ raised' = error_msg
         /\ result' = CreateErrorResponse(task_id, error_msg, latency)
    /\ decideCalls' = IF pc = "decide" THEN decideCalls + 1 ELSE decideCalls
    /\ pc' = "error"
    /\ UNCHANGED <<task_id, details, retr, results, report, decision_input, llm_out,
                   validated, decision_result, embedCalls, queryCalls, modelCalls>>
    /\ UNCHANGED <<cur, frames>>
    /\ UNCHANGED <<connsOut, cursorsOpen>>
    /\ UNCHANGED ingestVars

Next ==
    \/ ProcessReview
    \/ RetrieverEmbed
    \/ RetrieverQuery
    \/ CoverageGate
    \/ DecisionProcess
    \/ GenerateDecision
    \/ PolicyGate
    \/ Finalize
    \/ ProcessReviewExcept

Spec == Init /\ [][Next]_vars

\* the request has returned
Returned == pc \in {"coverage_rejected", "final", "error"}

\* Every awaited call returns or raises and the event loop runs the request
\* on: a step that is possible is eventually taken.
LiveSpec == Spec /\ WF_vars(Next)

\* the locals of the running request
Frame ==
    [pc |-> pc, task_id |-> task_id, details |-> details, retr |-> retr,
     results |-> results, report |-> report, decision_input |-> decision_input,
     llm_out |-> llm_out, validated |-> validated, decision_result |-> decision_result,
     result |-> result, raised |-> raised, embedCalls |-> embedCalls,
     queryCalls |-> queryCalls, decideCalls |-> decideCalls, modelCalls |-> modelCalls]

\* where the event loop can leave a request: before it is started, inside
\* one of the two awaited agent calls, after it returned.  The statements of
\* process_review between the awaited calls run without a suspension.
Suspended == pc \in {"idle", "retrieve", "query", "decide", "llm"} \/ Returned

\* Mutant: the retrieval report is kept on the shared orchestrator, not in
\* the locals of the request: the request resumed finds the report of the
\* request that ran last
SwitchRequest_SharedReport ==
    /\ Suspended
    /\ \E r \in Requests \ {cur} :
         /\ cur' = r
         /\ frames' = [frames EXCEPT ![cur] = Frame, ![r] = NewFrame]
         /\ pc' = frames[r].pc
         /\ task_id' = frames[r].task_id
         /\ details' = frames[r].details
         /\ retr' = frames[r].retr
         /\ results' = frames[r].results
         /\ report' = report
         /\ decision_input' = frames[r].decision_input
         /\ llm_out' = frames[r].llm_out
         /\ validated' = frames[r].validated
         /\ decision_result' = frames[r].decision_result
         /\ result' = frames[r].result
         /\ raised' = frames[r].raised
         /\ embedCalls' = frames[r].embedCalls
         /\ queryCalls' = frames[r].queryCalls
         /\ decideCalls' = frames[r].decideCalls
         /\ modelCalls' = frames[r].modelCalls
    /\ UNCHANGED <<connsOut, cursorsOpen>>
    /\ UNCHANGED ingestVars

\* The event loop leaves the running request and runs another one: each
\* coroutine of process_review has its own locals, and neither the
\* orchestrator nor the agents keep anything of a request on self.
SwitchRequest ==
    /\ Suspended
    /\ \E r \in Requests \ {cur} :
         /\ cur' = r
         /\ frames' = [frames EXCEPT ![cur] = Frame, ![r] = NewFrame]
         /\ pc' = frames[r].pc
         /\ task_id' = frames[r].task_id
         /\ details' = frames[r].details
         /\ retr' = frames[r].retr
         /\ results' = frames[r].results
         /\ report' = frames[r].report
         /\ decision_input' = frames[r].decision_input
         /\ llm_out' = frames[r].llm_out
         /\ validated' = frames[r].validated
         /\ decision_result' = frames[r].decision_result
         /\ result' = frames[r].result
         /\ raised' = frames[r].raised
         /\ embedCalls' = frames[r].embedCalls
         /\ queryCalls' = frames[r].queryCalls
         /\ decideCalls' = frames[r].decideCalls
         /\ modelCalls' = frames[r].modelCalls
    /\ UNCHANGED <<connsOut, cursorsOpen>>
    /\ UNCHANGED ingestVars

\* the row of chunk id with the given similarity
RowOf(id, similarity) ==
    CHOOSE row \in Rows : row.id = id /\ row.similarity = Num(similarity)

\* The answers of the store and of the model with several requests in
\* flight: no row, one row, two rows of two documents; an approve citing
\* two tags, a reject citing one, a failed call and text that is not JSON.
ConcResultSets ==
    { <<>>,
      <<RowOf(1, APPROVAL_COVERAGE_MIN)>>,
      <<RowOf(1, APPROVAL_COVERAGE_MIN), RowOf(5, APPROVAL_COVERAGE_MIN)>> }

ConcModelOutputs ==
    { ModelOutput("object", ALL_FIELDS, "approve",
                  ListOf(<<StrItem(TagA), StrItem(TagB)>>), Num(800), ListOf(<<>>)),
      ModelOutput("object", ALL_FIELDS, "reject",
                  ListOf(<<StrItem(TagA)>>), Num(800), ListOf(<<MODEL_ACTION>>)),
      NonObject("raise", {}),
      NonObject("notjson", {}) }

\* Several requests on the one orchestrator of src/routes/review.py, which
\* has the two agents of the repository (neither raises to process_review):
\* a step of the running request, or the event loop going to another request
NextConcurrent ==
    \/ ProcessReview
    \/ RetrieverEmbed
    \/ RetrieverQueryFrom(ConcResultSets)
    \/ CoverageGate
    \/ DecisionProcess
    \/ GenerateDecisionFrom(ConcModelOutputs)
    \/ PolicyGate
    \/ Finalize
    \/ SwitchRequest

SpecConcurrent == Init /\ [][NextConcurrent]_vars

\* values COVERAGE_THRESHOLD can be configured to (settings.py reads it from
\* the environment): 0, the default, and 1
Thresholds == {0, COVERAGE_THRESHOLD, 1000}

\* process_review, step 2, with settings.COVERAGE_THRESHOLD = threshold
CoverageGateAt(threshold) ==
    /\ pc = "gate"
    /\ \E latency \in Latencies :
         IF report.coverage < threshold
         THEN /\ result' =
                    Response("review completed", task_id, "reject",
                             Rationale("Insufficient contextual information available for review. Coverage is below required threshold.",
                                       "", report.coverage, threshold),
                             <<>>, report.doc_ids, report.coverage, latency,
                             <<PROVIDE_MORE_CONTEXT_COVERAGE>>, 0)
              /\ pc' = "coverage_rejected"
              /\ UNCHANGED decision_input
         ELSE /\ decision_input' =
                    [task_id |-> task_id, details |-> details,
                     passages |-> report.passages, tags |-> report.tags,
                     coverage |-> report.coverage]
              /\ pc' = "decide"
              /\ UNCHANGED result
    /\ UNCHANGED <<task_id, details, retr, results, report, llm_out, validated,
                   decision_result, raised, embedCalls, queryCalls, decideCalls,
                   modelCalls>>
    /\ UNCHANGED <<cur, frames>>
    /\ UNCHANGED <<connsOut, cursorsOpen>>
    /\ UNCHANGED ingestVars

\* One request under any configured coverage threshold; the model answers
\* with one of ConcModelOutputs
NextThresholds ==
    \/ ProcessReview
    \/ RetrieverEmbed
    \/ RetrieverQuery
    \/ \E threshold \in Thresholds : CoverageGateAt(threshold)
    \/ DecisionProcess
    \/ GenerateDecisionFrom(ConcModelOutputs)
    \/ PolicyGate
    \/ Finalize
    \/ ProcessReviewExcept

SpecThresholds == Init /\ [][NextThresholds]_vars

\* One request whose store query is answered by the chunks table
NextStore ==
    \/ ProcessReview
    \/ RetrieverEmbed
    \/ RetrieverQueryFrom(StoreAnswers)
    \/ CoverageGate
    \/ DecisionProcess
    \/ GenerateDecisionFrom(ConcModelOutputs)
    \/ PolicyGate
    \/ Finalize

SpecStore == Init /\ [][NextStore]_vars

\* DecisionAgent.process called on its own
NextDecisionAgent ==
    \/ DecisionAgentCall
    \/ DecisionProcess
    \/ GenerateDecision

SpecDecisionAgent == Init /\ [][NextDecisionAgent]_vars

----------------------------------------------------------------------------
(* The ingestion job: DocumentIngestion (src/rag/ingest.py) and              *)
(* RateLimitedIngestion (src/rag/ingest_with_retry.py)                       *)

Ingesters == {"DocumentIngestion", "RateLimitedIngestion"}

\* ingest_documents is called.  Without documents it returns at once; with
\* documents the chunks go to _upsert_chunks / _upsert_chunks_batch (a chunk
\* list that is empty although documents were loaded comes from pages
\* without text).
IngestStart ==
    /\ ipc \in {"idle", "done"}
    /\ runs < MaxRuns
    /\ \E class \in Ingesters, documents_loaded \in BOOLEAN :
         /\ chunks # <<>> => documents_loaded
         /\ ingester' = class
         /\ IF documents_loaded
            THEN /\ ipc' = "upsert"
                 /\ ingest_result' = NoIngestResult
                 /\ runs' = runs
            ELSE /\ ipc' = "done"
                 /\ ingest_result' = IngestResult("no_documents", 0)
                 /\ runs' = runs + 1
    /\ idx' = 1
    /\ inserted_count' = 0
    /\ txn' = <<>>
    /\ store0' = store
    /\ attempt' = 0
    /\ embedding' = "none"
    /\ calls' = <<>>
    /\ provider_calls' = 0
    /\ failed' = {}
    /\ UNCHANGED <<store, chunks>>
    /\ UNCHANGED requestVars

\* Mutant: the check for an existing chunk looks at the committed rows only,
\* not at the rows this run has inserted
DocUpsertChunk_ChecksCommittedOnly ==
    /\ ipc = "upsert"
    /\ ingester = "DocumentIngestion"
    /\ idx <= Len(chunks)
    /\ \E outcome \in {"ok", "select_failed", "embed_failed", "insert_failed"} :
         LET content_hash == Sha256(chunks[idx])
             existing == content_hash \in Hashes(store)
             called == outcome # "select_failed" /\ ~existing
             raises == outcome = "select_failed" \/ (~existing /\ outcome # "ok")
             inserts == ~existing /\ outcome = "ok"
         IN  /\ provider_calls' = IF called THEN provider_calls + 1 ELSE provider_calls
             /\ calls' = IF ~called THEN <<>>
                         ELSE IF outcome = "embed_failed" THEN <<"other">> ELSE <<"ok">>
             /\ txn' = IF raises THEN <<>>
                       ELSE IF inserts
                       THEN Append(txn, ChunkRow(chunks[idx], EMBEDDING_MODEL,
                                                 EMBEDDING_DIM, "vector"))
                       ELSE txn
             /\ inserted_count' = IF inserts THEN inserted_count + 1 ELSE inserted_count
             /\ failed' = IF raises THEN failed \cup {idx} ELSE failed
             /\ idx' = IF raises THEN idx ELSE idx + 1
             /\ ipc' = IF raises THEN "done" ELSE "upsert"
             /\ ingest_result' = IF raises THEN IngestResult("error", 0) ELSE ingest_result
             /\ runs' = IF raises THEN runs + 1 ELSE runs
    /\ UNCHANGED <<store, store0, chunks, ingester, attempt, embedding>>
    /\ UNCHANGED requestVars

\* Mutant: the session commits after every insert
DocUpsertChunk_CommitsEachChunk ==
    /\ ipc = "upsert"
    /\ ingester = "DocumentIngestion"
    /\ idx <= Len(chunks)
    /\ \E outcome \in {"ok", "select_failed", "embed_failed", "insert_failed"} :
         LET content_hash == Sha256(chunks[idx])
             existing == content_hash \in Hashes(store \o txn)
             called == outcome # "select_failed" /\ ~existing
             raises == outcome = "select_failed" \/ (~existing /\ outcome # "ok")
             inserts == ~existing /\ outcome = "ok"
         IN  /\ provider_calls' = IF called THEN provider_calls + 1 ELSE provider_calls
             /\ calls' = IF ~called THEN <<>>
                         ELSE IF outcome = "embed_failed" THEN <<"other">> ELSE <<"ok">>
             /\ store' = IF inserts
                         THEN Append(store, ChunkRow(chunks[idx], EMBEDDING_MODEL,
                                                     EMBEDDING_DIM, "vector"))
                         ELSE store
             /\ inserted_count' = IF inserts THEN inserted_count + 1 ELSE inserted_count
             /\ failed' = IF raises THEN failed \cup {idx} ELSE failed
             /\ idx' = IF raises THEN idx ELSE idx + 1
             /\ ipc' = IF raises THEN "done" ELSE "upsert"
             /\ ingest_result' = IF raises THEN IngestResult("error", 0) ELSE ingest_result
             /\ runs' = IF raises THEN runs + 1 ELSE runs
    /\ UNCHANGED <<txn, store0, chunks, ingester, attempt, embedding>>
    /\ UNCHANGED requestVars

\* DocumentIngestion._upsert_chunks, one pass of the chunk loop: the SELECT
\* for the content hash (it sees the rows this session has inserted), then
\* for a new hash the embedding call and the INSERT.  An exception anywhere
\* leaves the loop: db.rollback(), re-raise, and ingest_documents returns
\* status error.
DocUpsertChunk ==
    /\ ipc = "upsert"
    /\ ingester = "DocumentIngestion"
    /\ idx <= Len(chunks)
    /\ \E outcome \in {"ok", "select_failed", "embed_failed", "insert_failed"} :
         LET content_hash == Sha256(chunks[idx])
             existing == content_hash \in Hashes(store \o txn)
             called == outcome # "select_failed" /\ ~existing
             raises == outcome = "select_failed" \/ (~existing /\ outcome # "ok")
             inserts == ~existing /\ outcome = "ok"
         IN  /\ provider_calls' = IF called THEN provider_calls + 1 ELSE provider_calls
             /\ calls' = IF ~called THEN <<>>
                         ELSE IF outcome = "embed_failed" THEN <<"other">> ELSE <<"ok">>
             /\ txn' = IF raises THEN <<>>
                       ELSE IF inserts
                       THEN Append(txn, ChunkRow(chunks[idx], EMBEDDING_MODEL,
                                                 EMBEDDING_DIM, "vector"))
                       ELSE txn
             /\ inserted_count' = IF inserts THEN inserted_count + 1 ELSE inserted_count
             /\ failed' = IF raises THEN failed \cup {idx} ELSE failed
             /\ idx' = IF raises THEN idx ELSE idx + 1
             /\ ipc' = IF raises THEN "done" ELSE "upsert"
             /\ ingest_result' = IF raises THEN IngestResult("error", 0) ELSE ingest_result
             /\ runs' = IF raises THEN runs + 1 ELSE runs
    /\ UNCHANGED <<store, store0, chunks, ingester, attempt, embedding>>
    /\ UNCHANGED requestVars

\* DocumentIngestion._upsert_chunks after the loop: db.commit() makes the
\* inserted rows permanent and ingest_documents returns status success with
\* inserted_count; a commit that raises is rolled back like any other failure
DocCommit ==
    /\ ipc = "upsert"
    /\ ingester = "DocumentIngestion"
    /\ idx > Len(chunks)
    /\ \E committed \in BOOLEAN :
         /\ store' = IF committed THEN store \o txn ELSE store
         /\ failed' = IF committed THEN failed ELSE failed \cup {0}
         /\ ingest_result' = IF committed THEN IngestResult("success", inserted_count)
                             ELSE IngestResult("error", 0)
    /\ txn' = <<>>
    /\ ipc' = "done"
    /\ runs' = runs + 1
    /\ UNCHANGED <<store0, chunks, ingester, idx, inserted_count, attempt, embedding,
                   calls, provider_calls>>
    /\ UNCHANGED requestVars

\* RateLimitedIngestion._upsert_chunks_batch, one pass of the chunk loop up
\* to the embedding call: a session of its own, the SELECT for the content
\* hash, `continue` for an existing one.  An exception is caught by the
\* except clause of the loop body, which continues with the next chunk.
BatchSelect ==
    /\ ipc = "upsert"
    /\ ingester = "RateLimitedIngestion"
    /\ idx <= Len(chunks)
    /\ \E outcome \in {"ok", "select_failed"} :
         LET content_hash == Sha256(chunks[idx])
             existing == content_hash \in Hashes(store \o txn)
         IN  IF outcome = "select_failed"
             THEN /\ failed' = failed \cup {idx}
                  /\ idx' = idx + 1
                  /\ ipc' = "upsert"
             ELSE IF existing
             THEN /\ idx' = idx + 1
                  /\ ipc' = "upsert"
                  /\ UNCHANGED failed
             ELSE /\ ipc' = "embed"
                  /\ UNCHANGED <<idx, failed>>
    /\ attempt' = 0
    /\ calls' = <<>>
    /\ embedding' = "none"
    /\ UNCHANGED <<store, txn, store0, chunks, ingester, inserted_count, provider_calls,
                   ingest_result, runs>>
    /\ UNCHANGED requestVars

\* Mutant: a rate-limit error is re-raised only when attempt has reached
\* max_retries
EmbeddingAttempt_RaisesOneLate ==
    /\ ipc = "embed"
    /\ IF attempt >= MAX_RETRIES
       THEN /\ embedding' = "none"
            /\ ipc' = "insert"
            /\ UNCHANGED <<attempt, calls, provider_calls, failed, idx>>
       ELSE \E outcome \in {"ok", "rate_limit", "other"} :
            /\ provider_calls' = provider_calls + 1
            /\ calls' = Append(calls, outcome)
            /\ IF outcome = "ok"
               THEN /\ embedding' = "vector"
                    /\ ipc' = "insert"
                    /\ UNCHANGED <<attempt, failed, idx>>
               ELSE IF outcome = "rate_limit" /\ attempt # MAX_RETRIES
               THEN /\ attempt' = attempt + 1
                    /\ UNCHANGED <<embedding, ipc, failed, idx>>
               ELSE /\ failed' = failed \cup {idx}
                    /\ idx' = idx + 1
                    /\ ipc' = "upsert"
                    /\ UNCHANGED <<embedding, attempt>>
    /\ UNCHANGED <<store, txn, store0, chunks, ingester, inserted_count, ingest_result,
                   runs>>
    /\ UNCHANGED requestVars

\* RateLimitedIngestion._get_embedding_with_retry, one pass of
\* `for attempt in range(self.max_retries)`: the provider is called; its
\* embedding is returned; after a rate-limit error (429 or quota in the
\* message) the loop goes on unless this was the last attempt, which
\* re-raises; any other error re-raises at once.  A raise ends the chunk in
\* the except clause of the chunk loop.  A loop that ran out would return None.
EmbeddingAttempt ==
    /\ ipc = "embed"
    /\ IF attempt >= MAX_RETRIES
       THEN /\ embedding' = "none"
            /\ ipc' = "insert"
            /\ UNCHANGED <<attempt, calls, provider_calls, failed, idx>>
       ELSE \E outcome \in {"ok", "rate_limit", "other"} :
            /\ provider_calls' = provider_calls + 1
            /\ calls' = Append(calls, outcome)
            /\ IF outcome = "ok"
               THEN /\ embedding' = "vector"
                    /\ ipc' = "insert"
                    /\ UNCHANGED <<attempt, failed, idx>>
               ELSE IF outcome = "rate_limit" /\ attempt # MAX_RETRIES - 1
               THEN /\ attempt' = attempt + 1
                    /\ UNCHANGED <<embedding, ipc, failed, idx>>
               ELSE /\ failed' = failed \cup {idx}
                    /\ idx' = idx + 1
                    /\ ipc' = "upsert"
                    /\ UNCHANGED <<embedding, attempt>>
    /\ UNCHANGED <<store, txn, store0, chunks, ingester, inserted_count, ingest_result,
                   runs>>
    /\ UNCHANGED requestVars

\* RateLimitedIngestion._upsert_chunks_batch, the rest of the pass: the
\* INSERT and db.commit() of this one chunk, then total_inserted += 1.  An
\* exception ends the chunk without a row and without a count.
BatchInsert ==
    /\ ipc = "insert"
    /\ \E outcome \in {"ok", "insert_failed", "commit_failed"} :
         IF outcome = "ok"
         THEN /\ store' = Append(store, ChunkRow(chunks[idx], EMBEDDING_MODEL,
                                                 EMBEDDING_DIM, embedding))
              /\ inserted_count' = inserted_count + 1
              /\ UNCHANGED failed
         ELSE /\ failed' = failed \cup {idx}
              /\ UNCHANGED <<store, inserted_count>>
    /\ idx' = idx + 1
    /\ ipc' = "upsert"
    /\ UNCHANGED <<txn, store0, chunks, ingester, attempt, embedding, calls,
                   provider_calls, ingest_result, runs>>
    /\ UNCHANGED requestVars

\* RateLimitedIngestion: _upsert_chunks_batch returns total_inserted and
\* ingest_documents builds its result; inserted_count / len(chunks) raises
\* ZeroDivisionError for an empty chunk list, which gives status error
BatchReturn ==
    /\ ipc = "upsert"
    /\ ingester = "RateLimitedIngestion"
    /\ idx > Len(chunks)
    /\ ingest_result' = IF chunks = <<>> THEN IngestResult("error", 0)
                        ELSE IngestResult("success", inserted_count)
    /\ ipc' = "done"
    /\ runs' = runs + 1
    /\ UNCHANGED <<store, txn, store0, chunks, ingester, idx, inserted_count, attempt,
                   embedding, calls, provider_calls, failed>>
    /\ UNCHANGED requestVars

NextIngestion ==
    \/ IngestStart
    \/ DocUpsertChunk
    \/ DocCommit
    \/ BatchSelect
    \/ EmbeddingAttempt
    \/ BatchInsert
    \/ BatchReturn

\* the ingestion job run up to MaxRuns times, by either class, over one chunk
\* list and a chunks table that may already hold a row
InitIngestion ==
    /\ InitRequest
    /\ \E table \in InitialStores, documents \in ChunkLists : InitIngest(table, documents)

SpecIngestion == InitIngestion /\ [][NextIngestion]_vars

----------------------------------------------------------------------------
(* Properties *)

\* the request went through the coverage gate into DecisionAgent.process and
\* the agent has returned
Decided == pc \in {"policy", "finalize", "final"}

\* the policy gate has run
Gated == pc \in {"finalize", "final"}

\* RetrieverAgent.process has returned its report
Retrieved == retr # "none"

\* C1: a returned approve has coverage >= APPROVAL_COVERAGE_MIN (and >=
\* COVERAGE_THRESHOLD) and cites at least 2 distinct tags; an approve of the
\* decision agent that cites fewer than 2 distinct tags (one tag repeated
\* included) leaves the policy gate as reject.
C1_ApproveNeedsCoverageAndTwoTags ==
    /\ (Returned /\ result.decision = "approve") =>
          /\ pc = "final"
          /\ result.coverage = report.coverage
          /\ report.coverage >= APPROVAL_COVERAGE_MIN
          /\ report.coverage >= COVERAGE_THRESHOLD
          /\ Cardinality(Range(result.citations)) >= 2
    /\ (Gated /\ validated.decision = "approve"
          /\ Cardinality(Range(validated.citations)) < 2) =>
          /\ decision_result.decision = "reject"
          /\ (pc = "final" => result.decision = "reject")

\* C1 witness: an approve is returned at coverage exactly APPROVAL_COVERAGE_MIN
C1_Witness ==
    /\ pc = "final"
    /\ result.decision = "approve"
    /\ report.coverage = APPROVAL_COVERAGE_MIN
    /\ Len(result.citations) = 2

\* C2: every tag cited by a decision DecisionAgent.process returned, and by
\* the result built from it, is one of the tags handed to the agent in that
\* request.
C2_CitationsSubsetOfTags ==
    /\ Decided =>
          /\ Range(validated.citations) \subseteq Range(decision_input.tags)
          /\ Range(decision_result.citations) \subseteq Range(decision_input.tags)
    /\ pc = "final" => Range(result.citations) \subseteq Range(decision_input.tags)

\* C2 witness: the model cited a tag that was not handed to it next to one that
\* was, and the decision keeps a citation
C2_Witness ==
    /\ pc = "final"
    /\ llm_out.kind = "object"
    /\ \E i \in DOMAIN llm_out.citations.items :
          /\ llm_out.citations.items[i].t = "str"
          /\ llm_out.citations.items[i].tag \notin Range(decision_input.tags)
    /\ result.citations # <<>>

\* C3: an exception caught by the except clause of process_review ends the
\* request with the error result: reject, the error message in the
\* rationale, the single action retry_request, no citations, confidence 0.
C3_ExceptionGivesErrorResult ==
    /\ raised # "" => pc = "error"
    /\ pc = "error" =>
          /\ raised \in ErrMsgs
          /\ result.message = "review failed"
          /\ result.task_id = task_id
          /\ result.decision = "reject"
          /\ result.rationale.msg = "Processing error: . Unable to complete review."
          /\ result.rationale.err = raised
          /\ result.required_actions = <<RETRY_REQUEST>>
          /\ result.citations = <<>>
          /\ result.confidence = 0

\* C3 witness: the call of DecisionAgent.process raised after a retrieval that
\* passed the coverage gate
C3_Witness ==
    /\ pc = "error"
    /\ raised = "deadline exceeded"
    /\ decideCalls = 1
    /\ report.coverage >= COVERAGE_THRESHOLD

\* C4: with report coverage below COVERAGE_THRESHOLD DecisionAgent.process
\* and the model are never called, and the request returns the coverage
\* reject: reject, no citations, confidence 0, the single action
\* provide_more_context.
C4_LowCoverageRejectsWithoutDecision ==
    /\ (Retrieved /\ report.coverage < COVERAGE_THRESHOLD) =>
          /\ decideCalls = 0
          /\ modelCalls = 0
          /\ pc \in {"gate", "coverage_rejected"}
    /\ (Returned /\ Retrieved /\ report.coverage < COVERAGE_THRESHOLD) =>
          /\ pc = "coverage_rejected"
          /\ result.message = "review completed"
          /\ result.decision = "reject"
          /\ result.citations = <<>>
          /\ result.confidence = 0
          /\ Len(result.required_actions) = 1
          /\ result.required_actions[1].action = "provide_more_context"

\* C4 witness: rows were retrieved, their mean similarity is positive and
\* below the threshold
C4_Witness ==
    /\ pc = "coverage_rejected"
    /\ report.passages # <<>>
    /\ report.coverage > 0
    /\ report.coverage < COVERAGE_THRESHOLD

\* C5: with report coverage >= COVERAGE_THRESHOLD DecisionAgent.process is
\* called exactly once, after the retrieval, with the task details and the
\* passages, tags and coverage of the report.
C5_GatePassCallsDecisionOnce ==
    /\ decideCalls <= 1
    /\ decideCalls = 1 => (Retrieved /\ report.coverage >= COVERAGE_THRESHOLD)
    /\ (Returned /\ Retrieved /\ report.coverage >= COVERAGE_THRESHOLD) => decideCalls = 1
    /\ (Retrieved /\ report.coverage >= COVERAGE_THRESHOLD /\ pc # "gate") =>
          decision_input = [task_id |-> task_id, details |-> details,
                            passages |-> report.passages, tags |-> report.tags,
                            coverage |-> report.coverage]

\* C5 witness: coverage is exactly the threshold and the request went through
\* the decision agent
C5_Witness ==
    /\ pc = "final"
    /\ report.coverage = COVERAGE_THRESHOLD
    /\ decideCalls = 1
    /\ modelCalls = 1

\* C6: an approve that the policy gate downgrades leaves it as reject with no
\* citations, confidence 0 and the fixed policy rationale.
C6_DowngradeClearsDecision ==
    (Gated /\ validated.decision = "approve" /\ decision_result.decision # "approve") =>
       /\ decision_result.decision = "reject"
       /\ decision_result.citations = <<>>
       /\ decision_result.confidence = 0
       /\ decision_result.rationale = POLICY_RATIONALE
       /\ pc = "final" =>
             /\ result.decision = "reject"
             /\ result.citations = <<>>
             /\ result.confidence = 0
             /\ result.rationale = POLICY_RATIONALE

\* C6 witness: the model approved with a citation and a confidence of its
\* own, and the result is the downgraded reject
C6_Witness ==
    /\ pc = "final"
    /\ validated.decision = "approve"
    /\ validated.citations # <<>>
    /\ validated.confidence > 0
    /\ validated.rationale = MODEL_RATIONALE
    /\ result.decision = "reject"

\* C7: a reject of the decision agent leaves the policy gate with every
\* field unchanged, and never as approve.
C7_RejectPassesGateUnchanged ==
    (Gated /\ validated.decision = "reject") =>
       /\ decision_result = validated
       /\ decision_result.decision # "approve"
       /\ pc = "final" => result.decision = "reject"

\* C7 witness: a reject of the model with citations, a confidence and a
\* required action of its own went through the gate
C7_Witness ==
    /\ pc = "finalize"
    /\ validated.decision = "reject"
    /\ validated.rationale = MODEL_RATIONALE
    /\ validated.citations # <<>>
    /\ validated.confidence > 0
    /\ validated.required_actions = <<MODEL_ACTION>>

\* C8 as stated: a failed model call ends the request with the error result of
\* the orchestrator (retry_request).
C8_ModelFailureGivesErrorResult ==
    (Returned /\ llm_out.kind = "raise") =>
       /\ pc = "error"
       /\ result.required_actions = <<RETRY_REQUEST>>

\* C8 amended: a failed model call is caught inside DecisionAgent.process,
\* which returns the canonical reject response; the except clause of
\* process_review is not reached and the request returns that reject
\* (provide_more_context) as a completed review.
C8_ModelFailureGivesCanonicalReject ==
    llm_out.kind = "raise" =>
       /\ Decided
       /\ raised = ""
       /\ validated.decision = "reject"
       /\ validated.rationale = CANONICAL_RATIONALE
       /\ validated.required_actions = <<PROVIDE_MORE_CONTEXT_DECISION>>
       /\ pc = "final" =>
             /\ result.message = "review completed"
             /\ result.decision = "reject"
             /\ result.rationale = CANONICAL_RATIONALE
             /\ result.citations = <<>>
             /\ result.confidence = 0
             /\ result.required_actions = <<PROVIDE_MORE_CONTEXT_DECISION>>

\* C8 witness: the model call failed in a request that passed the coverage
\* gate, and the request has returned
C8_Witness ==
    /\ pc = "final"
    /\ llm_out.kind = "raise"
    /\ modelCalls = 1
    /\ report.coverage >= COVERAGE_THRESHOLD

\* C9: RetrieverAgent.process answers empty details, a failed embedding call
\* and a failed store query with the empty report (no passages, tags, doc
\* ids; coverage 0) and never reaches the except clause of process_review.
C9_RetrieverDegradesToEmptyReport ==
    /\ retr \in {"empty_details", "embed_failed", "query_failed"} =>
          /\ report.passages = <<>>
          /\ report.tags = <<>>
          /\ report.doc_ids = <<>>
          /\ report.coverage = 0
          /\ raised = ""
          /\ pc \in {"gate", "coverage_rejected"}
    /\ (embedCalls > 0 /\ pc = "error") => (Retrieved /\ decideCalls = 1)

\* C9 witness: the store query failed after a successful embedding call and
\* the request went on to the coverage gate
C9_Witness ==
    /\ retr = "query_failed"
    /\ embedCalls = 1
    /\ queryCalls = 1
    /\ pc = "coverage_rejected"

\* the model output fails one of the validator's checks: not JSON, a required
\* field missing, or a decision that is neither approve nor reject
FailsValidation(out) ==
    \/ out.kind = "notjson"
    \/ out.kind \in {"scalar", "array"}
    \/ out.kind = "object" /\ ~(REQUIRED_FIELDS \subseteq out.keys)
    \/ out.kind = "object" /\ out.decision \notin {"approve", "reject"}

\* C10: a model output that fails a check of the validator makes
\* DecisionAgent.process return exactly the canonical reject response;
\* nothing of the model output is in it.
C10_InvalidOutputGivesCanonicalReject ==
    (Decided /\ modelCalls = 1 /\ FailsValidation(llm_out)) =>
       /\ validated.decision = "reject"
       /\ validated.rationale = CANONICAL_RATIONALE
       /\ validated.citations = <<>>
       /\ validated.confidence = 0
       /\ validated.required_actions = <<PROVIDE_MORE_CONTEXT_DECISION>>

\* C10 witness: the model answered a JSON object with every field, available
\* citations and a decision outside {approve, reject}
C10_Witness ==
    /\ pc = "policy"
    /\ llm_out.kind = "object"
    /\ llm_out.decision = "maybe"
    /\ REQUIRED_FIELDS \subseteq llm_out.keys
    /\ \E i \in DOMAIN llm_out.citations.items :
          /\ llm_out.citations.items[i].t = "str"
          /\ llm_out.citations.items[i].tag \in Range(decision_input.tags)

\* C11: DecisionAgent.process called with an empty passages list or an empty
\* tags list returns the canonical reject response, and the model is not
\* called during that call.
C11_EmptyInputRejectsWithoutModel ==
    (decideCalls = 1 /\ (decision_input.passages = <<>> \/ decision_input.tags = <<>>)) =>
       /\ pc = "policy"
       /\ modelCalls = 0
       /\ llm_out = NoOutput
       /\ validated = CreateRejectResponse

\* C11 witness: the agent returned for a call with details and tags but no
\* passages
C11_Witness ==
    /\ pc = "policy"
    /\ decideCalls = 1
    /\ decision_input.details # ""
    /\ decision_input.passages = <<>>
    /\ decision_input.tags # <<>>

\* a numeric confidence in [0,1]
ConfidenceInRange(c) == c # NaN /\ 0 <= c /\ c <= 1000

\* C12 as stated: the confidence of every decision DecisionAgent.process
\* returns and of every result of process_review is a number in [0,1]; a
\* model-supplied confidence that is not a number, below 0 or above 1 becomes
\* 0.0, one in range is kept.
C12_ConfidenceInRangeOrZero ==
    /\ Decided => ConfidenceInRange(validated.confidence)
    /\ Returned => ConfidenceInRange(result.confidence)
    /\ (Decided /\ modelCalls = 1 /\ llm_out.kind = "object"
          /\ validated.rationale = MODEL_RATIONALE) =>
          validated.confidence =
             IF llm_out.confidence.t \in {"num", "bool"}
                /\ ConfidenceInRange(llm_out.confidence.n)
             THEN llm_out.confidence.n
             ELSE 0

\* C12 failing state: the model answered NaN as confidence and the returned
\* result carries it
C12_Witness ==
    /\ pc = "final"
    /\ llm_out.kind = "object"
    /\ llm_out.confidence = NaNValue
    /\ result.confidence = NaN

\* C13: in every report RetrieverAgent.process returns, passages and tags
\* have the same length, and passage i and tag i come from the same fetched
\* row: the passage is the row's text cut to 1500 characters, the tag is
\* doc:<document_id>#chunk:<id> of that row; the rows used are in the order
\* the store returned them.
C13_PassagesAndTagsParallel ==
    Retrieved =>
       /\ Len(report.passages) = Len(report.tags)
       /\ \E f \in [DOMAIN report.passages -> DOMAIN results] :
             /\ \A i, k \in DOMAIN report.passages : i < k => f[i] < f[k]
             /\ \A i \in DOMAIN report.passages :
                   /\ results[f[i]].text.t = "str"
                   /\ report.passages[i] = TrimText(results[f[i]].text)
                   /\ report.tags[i] =
                         MakeTag(results[f[i]].document_id, results[f[i]].id)

\* C13 witness: the store returned chunk 5 (2000 characters, document 2)
\* before chunk 1 (document 1), and the report has both in that order
C13_Witness ==
    /\ retr = "ok"
    /\ Len(report.passages) = 2
    /\ report.passages[1] = StrText(5, PASSAGE_MAX_CHARS)
    /\ report.tags[1] = MakeTag(2, 5)
    /\ report.passages[2] = StrText(1, 12)
    /\ report.tags[2] = MakeTag(1, 1)

\* every fetched row has a string as text and a number as similarity
WellFormedRows(rows) ==
    \A i \in DOMAIN rows : rows[i].text.t = "str" /\ rows[i].similarity.t = "num"

\* C14 as stated: the coverage of the report is the mean of the similarity
\* values of the fetched rows rounded to 3 decimals, 0.0 when no row was
\* fetched, whatever the similarity values are (a mean below 0 included).
C14_CoverageIsRoundedMean ==
    (retr = "ok" /\ WellFormedRows(results)) =>
       report.coverage =
          IF results = <<>> THEN 0
          ELSE RoundDiv(SumSeq([i \in DOMAIN results |-> results[i].similarity.n]),
                        Len(results))

\* C14 failing state: the store returned one row with similarity -0.3; the
\* report has coverage 0.0 and none of the row's passage, tag and doc id
C14_Witness ==
    /\ retr = "ok"
    /\ Len(results) = 1
    /\ results[1].text.t = "str"
    /\ results[1].similarity = Num(-300)
    /\ report = EmptyReport

\* C15 as stated: every returned result whose decision is reject has a
\* non-empty required_actions list, on every path.
C15_RejectHasRequiredActions ==
    (Returned /\ result.decision = "reject") => result.required_actions # <<>>

\* C15 failing state: the model approved with an empty required_actions
\* list, the policy gate downgraded the approve, and the returned reject has
\* no required action
C15_Witness ==
    /\ pc = "final"
    /\ validated.decision = "approve"
    /\ llm_out.required_actions = ListOf(<<>>)
    /\ result.decision = "reject"
    /\ result.rationale = POLICY_RATIONALE
    /\ result.required_actions = <<>>

\* the moves of one request through process_review: from the call to the
\* retrieval (START), to the report (RETRIEVED), then to the coverage reject
\* or into the decision, to the decision (DECIDED), through the policy gate
\* to the final result; or from an awaited call to the error result
PipelineMoves ==
    { <<"idle", "retrieve">>, <<"retrieve", "query">>, <<"retrieve", "gate">>,
      <<"query", "gate">>, <<"gate", "coverage_rejected">>, <<"gate", "decide">>,
      <<"decide", "llm">>, <<"decide", "policy">>, <<"llm", "policy">>,
      <<"policy", "finalize">>, <<"finalize", "final">>,
      <<"retrieve", "error">>, <<"decide", "error">> }

\* a step of the request is one of the moves
ForwardMove == <<pc, pc'>> \in PipelineMoves

\* C18: a request only moves forward through the pipeline states and visits
\* none twice; a result exists exactly when the request is in a terminal
\* state and is never replaced; and, every awaited call returning or
\* raising, the request reaches a terminal state.
C18_ForwardToOneTerminal ==
    /\ [][ForwardMove]_vars
    /\ [][result # NoResult => result' = result]_vars
    /\ [](Returned <=> result # NoResult)
    /\ [](Returned => ~ENABLED Next)
    /\ <>Returned

\* C18 witness: a request went through retrieval, decision and a downgrade
\* at the policy gate and returned
C18_Witness ==
    /\ pc = "final"
    /\ retr = "ok"
    /\ modelCalls = 1
    /\ validated.decision = "approve"
    /\ result.decision = "reject"

\* C19: in one call of process_review the embedding provider, the store and
\* the model are each called at most once, also when the call fails or the
\* model output is malformed.
C19_NothingIsRetried ==
    /\ embedCalls <= 1
    /\ queryCalls <= 1
    /\ modelCalls <= 1
    /\ retr = "embed_failed" => (embedCalls = 1 /\ queryCalls = 0 /\ modelCalls = 0)
    /\ retr = "query_failed" => (embedCalls = 1 /\ queryCalls = 1 /\ modelCalls = 0)
    /\ (Decided /\ llm_out # NoOutput) => modelCalls = 1

\* C19 witness: the model answered text that is not JSON, and the request
\* returned after one call of each collaborator
C19_Witness ==
    /\ pc = "final"
    /\ llm_out.kind = "notjson"
    /\ embedCalls = 1
    /\ queryCalls = 1
    /\ modelCalls = 1

\* C20 as stated: every returned result, on every path, carries the task id
\* of the request, a decision in {approve, reject}, rationale, citations,
\* retrieved_doc_ids, a coverage in [0,1], a confidence in [0,1],
\* required_actions and latency_ms.
C20_ResultWellFormed ==
    Returned =>
       /\ DOMAIN result = {"message", "task_id", "decision", "rationale", "citations",
                           "retrieved_doc_ids", "coverage", "latency_ms",
                           "required_actions", "confidence"}
       /\ result.message \in {"review completed", "review failed"}
       /\ result.task_id = task_id
       /\ result.decision \in {"approve", "reject"}
       /\ 0 <= result.coverage /\ result.coverage <= 1000
       /\ ConfidenceInRange(result.confidence)
       /\ result.latency_ms \in Latencies

\* C20 failing state: an approve that passed the policy gate is returned
\* with the confidence NaN the model gave
C20_Witness ==
    /\ pc = "final"
    /\ result.decision = "approve"
    /\ Len(result.citations) = 2
    /\ result.confidence = NaN

\* the locals of request r, running or not
FrameOf(r) == IF r = cur THEN Frame ELSE frames[r]

\* the request of frame f has returned from the pipeline with a result
ReturnedFrame(f) == f.pc \in {"coverage_rejected", "final"}

\* What process_review returns for a request that runs alone with the inputs
\* of frame f: its task id, what the retrieval got, what the model answered
\* and the latency measured.
RunAlone(f) ==
    LET retrieval_report == IF f.retr = "ok" THEN BuildReport(f.results) ELSE EmptyReport
        decision == IF f.llm_out = NoOutput THEN CreateRejectResponse
                    ELSE ParseAndValidate(f.llm_out, retrieval_report.tags)
    IN  IF LowCoverage(retrieval_report)
        THEN CreateLowCoverageResponse(f.task_id, retrieval_report, f.result.latency_ms)
        ELSE CreateFinalResponse(f.task_id, ApplyPolicyGate(decision, retrieval_report),
                                 retrieval_report, f.result.latency_ms)

\* C16: with several requests in flight on the one orchestrator, in every
\* interleaving the report and the decision of a request are those made from
\* its own retrieval and its own model output, and its result is the one it
\* gets when it runs alone.
C16_RequestsAreIndependent ==
    \A r \in Requests :
       LET f == FrameOf(r)
       IN  /\ f.retr # "none" =>
                f.report = IF f.retr = "ok" THEN BuildReport(f.results) ELSE EmptyReport
           /\ f.pc \in {"decide", "llm", "policy", "finalize", "final"} =>
                f.decision_input =
                   [task_id |-> f.task_id, details |-> f.details,
                    passages |-> f.report.passages, tags |-> f.report.tags,
                    coverage |-> f.report.coverage]
           /\ f.pc \in {"finalize", "final"} =>
                f.decision_result = ApplyPolicyGate(f.validated, f.report)
           /\ ReturnedFrame(f) => f.result = RunAlone(f)

\* C16 witness: request 1 waits for the model with a report of two chunks
\* while request 2, with a report of one chunk, has had its approve
\* downgraded in place by the policy gate
C16_Witness ==
    /\ cur = 2
    /\ frames[1].pc = "llm"
    /\ Len(frames[1].report.tags) = 2
    /\ pc = "finalize"
    /\ Len(report.tags) = 1
    /\ validated.decision = "approve"
    /\ decision_result.rationale = POLICY_RATIONALE

\* the inputs of a run: the task, what the store returned and what the
\* model answered
RunInputs(f) == <<f.task_id, f.details, f.results, f.llm_out>>

\* C17: two runs of process_review with the same task details, the same
\* rows from the store and the same model output return results that are
\* equal in every field except latency_ms.
C17_SameInputsSameResult ==
    \A a, b \in Requests :
       (ReturnedFrame(FrameOf(a)) /\ ReturnedFrame(FrameOf(b))
          /\ RunInputs(FrameOf(a)) = RunInputs(FrameOf(b))) =>
          [FrameOf(a).result EXCEPT !.latency_ms = 0]
             = [FrameOf(b).result EXCEPT !.latency_ms = 0]

\* C17 witness: two runs with the same inputs returned the same approve with
\* different latencies
C17_Witness ==
    /\ cur = 2
    /\ pc = "final"
    /\ frames[1].pc = "final"
    /\ RunInputs(frames[1]) = RunInputs(Frame)
    /\ result.decision = "approve"
    /\ frames[1].result.decision = "approve"
    /\ frames[1].result.latency_ms # result.latency_ms

\* the row loop of RetrieverAgent.process runs through for this row: its text
\* has a length and its similarity is a number
GoodRow(row) == row.text.t = "str" /\ row.similarity.t = "num"

\* C21 as stated: a fetched row whose processing fails (its text or its
\* similarity is unusable) adds no passage, no tag, no document id and no
\* similarity to the report; the report is built from the other rows alone and
\* its coverage is the mean over exactly the rows whose passages it has.
\* Stated for fetched rows without a negative similarity.
C21_FailedRowSkippedEntirely ==
    (retr = "ok" /\ \A i \in DOMAIN results : results[i].similarity.n >= 0) =>
       LET good == SelectSeq(results, GoodRow)
       IN  /\ report.passages = [i \in DOMAIN good |-> TrimText(good[i].text)]
           /\ report.tags = [i \in DOMAIN good |-> MakeTag(good[i].document_id, good[i].id)]
           /\ Range(report.doc_ids) = {good[i].document_id : i \in DOMAIN good}
           /\ report.coverage = Coverage([i \in DOMAIN good |-> good[i].similarity.n])

\* C21 failing state: the store returned chunk 5 with similarity NULL before
\* chunk 1 with similarity 0.45; the report has the passage, the tag and the
\* document id of chunk 5, and its coverage is the mean over chunk 1 alone
C21_Witness ==
    /\ retr = "ok"
    /\ Len(results) = 2
    /\ results[1].id = 5
    /\ results[1].similarity = NotNum("none")
    /\ results[2].id = 1
    /\ results[2].similarity = Num(APPROVAL_COVERAGE_MIN)
    /\ report.passages = <<StrText(5, PASSAGE_MAX_CHARS), StrText(1, 12)>>
    /\ report.tags = <<MakeTag(2, 5), MakeTag(1, 1)>>
    /\ report.doc_ids = <<2, 1>>
    /\ report.coverage = APPROVAL_COVERAGE_MIN

\* C24: every passage of a report is the first min(len(text), 1500)
\* characters of the text of the fetched row its tag names: no passage is
\* longer than 1500 characters, and a text of 1500 characters or fewer is the
\* passage unchanged.
C24_PassageIsPrefixOfText ==
    Retrieved =>
       \A i \in DOMAIN report.passages :
          /\ report.passages[i].len <= PASSAGE_MAX_CHARS
          /\ \E k \in DOMAIN results :
                /\ report.tags[i] = MakeTag(results[k].document_id, results[k].id)
                /\ results[k].text.t = "str"
                /\ report.passages[i] =
                      StrText(results[k].text.src,
                              Min(results[k].text.len, PASSAGE_MAX_CHARS))
                /\ results[k].text.len <= PASSAGE_MAX_CHARS
                      => report.passages[i] = results[k].text

\* C24 witness: the store returned chunk 3 (exactly 1500 characters) and
\* chunk 5 (2000 characters); the first passage is the whole text, the second
\* its first 1500 characters
C24_Witness ==
    /\ retr = "ok"
    /\ Len(results) = 2
    /\ results[1].text = StrText(3, PASSAGE_MAX_CHARS)
    /\ results[2].text = StrText(5, 2000)
    /\ report.passages = <<StrText(3, PASSAGE_MAX_CHARS), StrText(5, PASSAGE_MAX_CHARS)>>

\* the document ids the tags of the report name, tag by tag
TagDocIds == [i \in DOMAIN report.tags |-> report.tags[i].doc]

\* the first position of x in the sequence s
FirstIndex(s, x) == CHOOSE i \in DOMAIN s : s[i] = x /\ \A j \in 1..(i - 1) : s[j] # x

\* C25: the doc_ids of a report have no duplicates, are exactly the document
\* ids of the rows whose tags are in the report, and stand in the order in
\* which those rows first name them; the result of process_review has the
\* same list as retrieved_doc_ids when it returns from the coverage gate or
\* from the final step (downgraded by the policy gate or not).
C25_DocIdsUniqueInFirstAppearanceOrder ==
    /\ Retrieved =>
          /\ \A a, b \in DOMAIN report.doc_ids :
                a # b => report.doc_ids[a] # report.doc_ids[b]
          /\ Range(report.doc_ids) = Range(TagDocIds)
          /\ \A a, b \in DOMAIN report.doc_ids :
                a < b => FirstIndex(TagDocIds, report.doc_ids[a])
                            < FirstIndex(TagDocIds, report.doc_ids[b])
    /\ pc \in {"coverage_rejected", "final"} => result.retrieved_doc_ids = report.doc_ids

\* C25 witness: two chunks of document 1 were retrieved, the report names the
\* document once, and the final result carries that list
C25_Witness ==
    /\ pc = "final"
    /\ report.tags = <<MakeTag(1, 3), MakeTag(1, 1)>>
    /\ report.doc_ids = <<1>>
    /\ result.retrieved_doc_ids = <<1>>

\* a step of the policy gate or of the final step leaves the report as it is
ReportKept == pc \in {"policy", "finalize"} => report' = report

\* C30: the policy gate leaves the required_actions of the decision as the
\* validator produced them and changes nothing but decision, rationale,
\* citations and confidence; no step from the policy gate on changes the
\* retrieval report, and the final result has the report's coverage and
\* doc_ids, downgraded or not.
C30_PolicyGateLeavesActionsAndReport ==
    /\ [](Gated =>
            /\ decision_result.required_actions = validated.required_actions
            /\ decision_result # validated =>
                  decision_result =
                     [validated EXCEPT !.decision = decision_result.decision,
                                       !.rationale = decision_result.rationale,
                                       !.citations = decision_result.citations,
                                       !.confidence = decision_result.confidence])
    /\ [][ReportKept]_vars
    /\ [](pc = "final" =>
            /\ result.coverage = report.coverage
            /\ result.retrieved_doc_ids = report.doc_ids
            /\ result.required_actions = validated.required_actions)

\* C30 witness: an approve of the model with one required action was
\* downgraded by the policy gate; the final reject still has that action, and
\* coverage and doc_ids of the report
C30_Witness ==
    /\ pc = "final"
    /\ validated.decision = "approve"
    /\ validated.required_actions = <<MODEL_ACTION>>
    /\ result.decision = "reject"
    /\ result.rationale = POLICY_RATIONALE
    /\ result.required_actions = <<MODEL_ACTION>>
    /\ report.doc_ids # <<>>
    /\ result.retrieved_doc_ids = report.doc_ids
    /\ result.coverage = report.coverage

\* C22: a request whose retrieval gave no row (the store returned none, or
\* the embedding call or the query failed, or the details were empty) never
\* reaches the model and returns decision = reject, whatever
\* COVERAGE_THRESHOLD is configured to, 0 included.
C22_NoRowsRejectsWithoutModel ==
    results = <<>> =>
       /\ pc # "llm"
       /\ modelCalls = 0
       /\ Returned => result.decision = "reject"

\* C22 witness: the store returned no row, the coverage gate let coverage 0.0
\* through (threshold 0), DecisionAgent.process returned the reject response
\* on the empty passages without a model call, and the request ended at the
\* final step
C22_Witness ==
    /\ pc = "final"
    /\ retr = "ok"
    /\ results = <<>>
    /\ report.coverage = 0
    /\ decideCalls = 1
    /\ modelCalls = 0
    /\ result.decision = "reject"
    /\ result.rationale = CANONICAL_RATIONALE

\* C23: a report has at most TOP_K passages, and each of them is the text of
\* a stored chunk whose model name is EMBEDDING_MODEL and whose
\* dimensionality is EMBEDDING_DIM; a chunk stored under another model or
\* dimensionality is in no report, however close it is to the query.
C23_AtMostTopKOfConfiguredModel ==
    Retrieved =>
       /\ Len(report.passages) <= TOP_K
       /\ Len(results) <= TOP_K
       /\ \A i \in DOMAIN report.passages :
             \E c \in StoredChunks :
                /\ c.model = EMBEDDING_MODEL
                /\ c.dim = EMBEDDING_DIM
                /\ report.tags[i] = MakeTag(c.document_id, c.id)
                /\ report.passages[i] = TrimText(c.text)
       /\ \A c \in StoredChunks :
             (c.model # EMBEDDING_MODEL \/ c.dim # EMBEDDING_DIM) =>
                /\ \A i \in DOMAIN results : results[i].id # c.id
                /\ \A i \in DOMAIN report.tags : report.tags[i].chunk # c.id

\* C23 witness: five chunks of the configured model are stored and the query
\* is closest (0.9) to a chunk stored under another model or dimensionality;
\* the report has TOP_K passages, none of them that chunk
C23_Witness ==
    /\ retr = "ok"
    /\ Len(results) = TOP_K
    /\ Len(report.passages) = TOP_K
    /\ \A i \in DOMAIN results : results[i].similarity.n < 900

\* C29 as stated: whenever RetrieverAgent.process is not inside its store
\* query, every connection and cursor it acquired has been closed: after a
\* query that ran through and also after one whose execute or fetch raised,
\* for every request there has been.
C29_ConnectionsClosedOnEveryPath ==
    connsOut = 0 /\ cursorsOpen = 0

\* C29 failing state: cursor.execute raised in the query of a request; the
\* retriever returned the empty report and the request went on to the
\* coverage reject with the connection and the cursor not closed
C29_Witness ==
    /\ pc = "coverage_rejected"
    /\ retr = "query_failed"
    /\ report = EmptyReport
    /\ connsOut = 1
    /\ cursorsOpen = 1

\* no two rows of the chunks table, committed or inserted by the open
\* session, have the same content hash
NoDuplicateHashes ==
    \A i, j \in DOMAIN (store \o txn) :
       i # j => (store \o txn)[i].sha256 # (store \o txn)[j].sha256

\* a step that calls the embedding provider or inserts a row does so for the
\* chunk at idx, and the hash of that chunk is not in the table
DedupStep ==
    (provider_calls' > provider_calls \/ Len(store' \o txn') > Len(store \o txn)) =>
       /\ idx \in DOMAIN chunks
       /\ Sha256(chunks[idx]) \notin Hashes(store \o txn)

\* every chunk of the run was in the table when the run began
AllStoredAtStart ==
    \A k \in DOMAIN chunks : Sha256(chunks[k]) \in Hashes(store0)

RowsPersisted == Len(store) - Len(store0)

\* a step of the batch variant leaves every committed row in place
CommittedRowsStay ==
    (ingester = "RateLimitedIngestion" /\ ingester' = ingester) =>
       /\ Len(store') >= Len(store)
       /\ SubSeq(store', 1, Len(store)) = store

\* C27: DocumentIngestion is all-or-nothing: nothing of a run is permanent
\* before its commit; a run in which the SELECT, the embedding call, the
\* INSERT or the commit failed ends with status error and the table as it was
\* before the run; a run without a failure ends with status success and its
\* inserted rows permanent.  RateLimitedIngestion commits chunk by chunk: no
\* row waits uncommitted between chunks, committed rows stay, a failing chunk
\* adds no row, every chunk that did not fail is in the table when the run
\* returns, and the returned count is the number of rows the run made
\* permanent.
C27_AllOrNothingAndPerChunkCommit ==
    /\ []((ingester = "DocumentIngestion" /\ ipc = "upsert") => store = store0)
    /\ []((ingester = "DocumentIngestion" /\ ipc = "done"
              /\ ingest_result.status # "no_documents") =>
            /\ txn = <<>>
            /\ failed # {} => (ingest_result.status = "error" /\ store = store0)
            /\ failed = {} =>
                  /\ ingest_result = IngestResult("success", inserted_count)
                  /\ RowsPersisted = inserted_count
                  /\ \A k \in DOMAIN chunks : Sha256(chunks[k]) \in Hashes(store))
    /\ []((ingester = "RateLimitedIngestion" /\ ipc # "idle"
              /\ ingest_result.status # "no_documents") =>
            /\ txn = <<>>
            /\ inserted_count = RowsPersisted
            /\ RowsPersisted <= (idx - 1) - Cardinality(failed)
            /\ \A k \in 1..(idx - 1) :
                  k \notin failed => Sha256(chunks[k]) \in Hashes(store)
            /\ (ipc = "done" /\ chunks # <<>>) =>
                  ingest_result = IngestResult("success", RowsPersisted))
    /\ [][CommittedRowsStay]_vars

\* C27 witness: the batch variant ran over the chunks 1, 2, 3 on an empty
\* table; chunk 2 failed; the rows of chunk 1 (committed before the failure)
\* and of chunk 3 (processed after it) are in the table and the run returned
\* the count 2
C27_Witness ==
    /\ ingester = "RateLimitedIngestion"
    /\ ipc = "done"
    /\ chunks = <<1, 2, 3>>
    /\ store0 = <<>>
    /\ failed = {2}
    /\ Hashes(store) = {Sha256(1), Sha256(3)}
    /\ ingest_result = IngestResult("success", 2)

\* C28: _get_embedding_with_retry calls the provider at most max_retries (3)
\* times for a chunk; a call follows another only after a rate-limit error;
\* any other error, and the third rate-limit error in a row, raise (the chunk
\* is given up); the function returns only with the provider's embedding.
C28_EmbeddingRetryIsBounded ==
    ingester = "RateLimitedIngestion" =>
       /\ Len(calls) <= MAX_RETRIES
       /\ \A p \in 1..(Len(calls) - 1) : calls[p] = "rate_limit"
       /\ ipc = "embed" =>
             /\ attempt = Len(calls)
             /\ attempt < MAX_RETRIES
             /\ \A p \in DOMAIN calls : calls[p] = "rate_limit"
       /\ ipc = "insert" =>
             /\ embedding = "vector"
             /\ calls # <<>>
             /\ calls[Len(calls)] = "ok"
       /\ (calls # <<>> /\ (calls[Len(calls)] = "other"
                             \/ (calls[Len(calls)] = "rate_limit"
                                   /\ Len(calls) = MAX_RETRIES))) =>
             /\ ipc \in {"upsert", "done"}
             /\ (idx - 1) \in failed
             /\ Sha256(chunks[idx - 1]) \notin Hashes(store) \ Hashes(store0)
                   \/ \E k \in 1..(idx - 2) : chunks[k] = chunks[idx - 1]

\* C28 witness: the provider answered the first chunk with a rate-limit
\* error three times; after the third call the function raised and the
\* chunk was given up without a row
C28_Witness ==
    /\ ingester = "RateLimitedIngestion"
    /\ calls = <<"rate_limit", "rate_limit", "rate_limit">>
    /\ provider_calls = MAX_RETRIES
    /\ idx = 2
    /\ failed = {1}
    /\ store = store0

====
